---- MODULE Spec2Model ----
(***************************************************************************)
(* A model of the otel_tracing facade: the attribute value type and its    *)
(* text parser, the metric-unit code tables, the Datadog attribute mapper  *)
(* and the logger's attribute preparation.                                 *)
(*                                                                         *)
(* Text is modelled by TLA+ strings; Len, SubSeq and \o act on them as on  *)
(* sequences of characters.  A HashMap<String, AttributeValue> is a        *)
(* function from a finite set of strings; the order in which the code's    *)
(* `for (key, value) in attributes` visits a HashMap is not fixed by the   *)
(* program (std's RandomState), so every operation that iterates a map     *)
(* takes the visiting order as an input drawn with \E.                     *)
(***************************************************************************)
EXTENDS Integers, Sequences, FiniteSets, TLC

VARIABLES
    attributes,          \* mapper: the HashMap handed to the mapper
    visit_order,         \* mapper: the order its entries were visited in
    datadog_attributes,  \* mapper: the map the call returned
    second_attributes,   \* mapper: the map a second call on the same input returned
    remapped_attributes, \* mapper: the map returned for the returned map
    mapper_pc,           \* mapper: "start" | "mapped" | "again" | "remapped"
    parse_text,          \* parse: the text handed to AttributeValue::parse
    parsed,              \* parse: what the call returned
    parse_pc,            \* parse: "start" | "parsed"
    unit_in,             \* units: the MetricUnit whose code is taken, or NoUnit
    unit_code,           \* units: the code text handed to from_str
    unit_out,            \* units: what from_str ended in
    unit_pc,             \* units: "start" | "coded" | "decoded" | "panicked"
    service_name,        \* logger: DatadogLogger.service_name
    log_context,         \* logger: the LogContext handed to log
    prepared_attributes, \* logger: the map log hands to the mapper
    logged_attributes,   \* logger: the map the mapper returned to log
    tracing_events,      \* logger: the tracing events log emitted
    log_pc,              \* logger: "start" | "logged"
    error_call,          \* logger: the arguments of a log_error call, or NoErrorCall
    current_cx,          \* trace: the thread's current Context (a span id or NoSpan)
    spans,               \* trace: every span created so far, by id
    frames,              \* trace: the with_span calls in progress, innermost last
    trace_log,           \* trace: what the tracer and the contexts were asked to do
    returned,            \* trace: what the finished with_span calls returned
    native,              \* convert: the native integer handed to AttributeValue::from
    from_value,          \* convert: the AttributeValue it became
    displayed,           \* convert: the text the AttributeValue displays as
    convert_pc,          \* convert: "start" | "converted" | "displayed"
    shutdown_outcomes,   \* service: what each port's shutdown returns
    shutdown_calls,      \* service: the ports whose shutdown was called, in order
    errors,              \* service: shutdown's `errors` vector
    shutdown_result,     \* service: what shutdown returned
    service_pc,          \* service: "tracer" | "metrics" | "logger" | "return" | "done"
    TELEMETRY_SERVICE,   \* facade: the global cell: NoService or the installed service
    init_pc,             \* facade: where each facade::init call is
    init_result,         \* facade: what each facade::init call returned
    component_inits,     \* facade: the ports initialized on each service, in order
    installs,            \* facade: the callers whose service the cell accepted
    user_got,            \* facade: what each other facade call found in the cell
    shutdown_got,        \* facade: what each facade::shutdown call returned
    component_shutdowns, \* facade: how often each service was shut down
    environment,         \* metrics: DD_ENV, DD_SERVICE, DD_VERSION of the process
    counter_meter_provider, \* metrics: whether init has stored the counter provider
    metric_context,      \* metrics: the MetricContext handed to create_counter
    counter,             \* metrics: the DatadogCounter it returned
    metrics_pc,          \* metrics: "start" | "created"
    global_default,      \* lifecycle: the process's global tracing subscriber
    logger_provider,     \* lifecycle: each DatadogLogger's stored provider
    sdk_providers,       \* lifecycle: the SdkLoggerProviders built so far
    lifecycle_calls,     \* lifecycle: the init and shutdown calls and results
    init_outcomes,       \* startup: what each port's init returns
    init_calls,          \* startup: the ports whose init was called, in order
    startup_result,      \* startup: what TelemetryService::init returned
    startup_pc,          \* startup: the port whose init is next, "done" at return
    meter_slots,         \* meters: DatadogMetrics' three stored meter providers
    sdk_meter_providers, \* meters: how often each SdkMeterProvider was shut down
    global_meter_provider, \* meters: the global meter provider
    meter_calls,         \* meters: the init and shutdown calls and their results
    created_with,        \* instruments: the default attributes each was created with
    default_attributes,  \* instruments: each instrument's default_attributes field
    last_recording,      \* instruments: what the last add, set or record call recorded
    recordings,          \* instruments: the number of such calls made
    metric_name,         \* names: the name handed to format_metric_name
    formatted,           \* names: what format_metric_name returned for it
    reformatted,         \* names: what it returned for that result
    name_pc,             \* names: "start" | "formatted" | "reformatted"
    error_texts,         \* stack: the display texts of an error and of its sources
    current_error,       \* stack: extract_stack_trace's current_error
    error_chain,         \* stack: its error_chain vector
    stack_trace,         \* stack: the text it returned
    stack_pc             \* stack: "loop" | "returned"

mapper_vars ==
    <<attributes, visit_order, datadog_attributes, second_attributes,
      remapped_attributes, mapper_pc>>

parse_vars == <<parse_text, parsed, parse_pc>>

unit_vars == <<unit_in, unit_code, unit_out, unit_pc>>

log_vars ==
    <<service_name, log_context, prepared_attributes, logged_attributes,
      tracing_events, log_pc, error_call>>

trace_vars == <<current_cx, spans, frames, trace_log, returned>>

convert_vars == <<native, from_value, displayed, convert_pc>>

service_vars ==
    <<shutdown_outcomes, shutdown_calls, errors, shutdown_result, service_pc>>

facade_vars ==
    <<TELEMETRY_SERVICE, init_pc, init_result, component_inits, installs,
      user_got, shutdown_got, component_shutdowns>>

metrics_vars ==
    <<environment, counter_meter_provider, metric_context, counter,
      metrics_pc>>

lifecycle_vars == <<global_default, logger_provider, sdk_providers, lifecycle_calls>>

startup_vars == <<init_outcomes, init_calls, startup_result, startup_pc>>

meters_vars == <<meter_slots, sdk_meter_providers, global_meter_provider, meter_calls>>

instruments_vars == <<created_with, default_attributes, last_recording, recordings>>

names_vars == <<metric_name, formatted, reformatted, name_pc>>

stack_vars == <<error_texts, current_error, error_chain, stack_trace, stack_pc>>

vars ==
    <<mapper_vars, parse_vars, unit_vars, log_vars, trace_vars,
      convert_vars, service_vars, facade_vars, metrics_vars,
      lifecycle_vars, startup_vars, meters_vars, instruments_vars,
      names_vars, stack_vars>>

\* What the operations of one component leave alone: the other components.
outside_mapper ==
    <<parse_vars, unit_vars, log_vars, trace_vars, convert_vars,
      service_vars, facade_vars, metrics_vars, lifecycle_vars,
      startup_vars, meters_vars, instruments_vars, names_vars,
      stack_vars>>
outside_parse ==
    <<mapper_vars, unit_vars, log_vars, trace_vars, convert_vars,
      service_vars, facade_vars, metrics_vars, lifecycle_vars,
      startup_vars, meters_vars, instruments_vars, names_vars,
      stack_vars>>
outside_units ==
    <<mapper_vars, parse_vars, log_vars, trace_vars, convert_vars,
      service_vars, facade_vars, metrics_vars, lifecycle_vars,
      startup_vars, meters_vars, instruments_vars, names_vars,
      stack_vars>>
outside_log ==
    <<mapper_vars, parse_vars, unit_vars, trace_vars, convert_vars,
      service_vars, facade_vars, metrics_vars, lifecycle_vars,
      startup_vars, meters_vars, instruments_vars, names_vars,
      stack_vars>>
outside_convert ==
    <<mapper_vars, parse_vars, unit_vars, log_vars, trace_vars,
      service_vars, facade_vars, metrics_vars, lifecycle_vars,
      startup_vars, meters_vars, instruments_vars, names_vars,
      stack_vars>>
outside_trace ==
    <<mapper_vars, parse_vars, unit_vars, log_vars, convert_vars,
      service_vars, facade_vars, metrics_vars, lifecycle_vars,
      startup_vars, meters_vars, instruments_vars, names_vars,
      stack_vars>>
outside_service ==
    <<mapper_vars, parse_vars, unit_vars, log_vars, trace_vars,
      convert_vars, facade_vars, metrics_vars, lifecycle_vars,
      startup_vars, meters_vars, instruments_vars, names_vars,
      stack_vars>>
outside_facade ==
    <<mapper_vars, parse_vars, unit_vars, log_vars, trace_vars,
      convert_vars, service_vars, metrics_vars, lifecycle_vars,
      startup_vars, meters_vars, instruments_vars, names_vars,
      stack_vars>>
outside_metrics ==
    <<mapper_vars, parse_vars, unit_vars, log_vars, trace_vars,
      convert_vars, service_vars, facade_vars, lifecycle_vars,
      startup_vars, meters_vars, instruments_vars, names_vars,
      stack_vars>>
outside_lifecycle ==
    <<mapper_vars, parse_vars, unit_vars, log_vars, trace_vars,
      convert_vars, service_vars, facade_vars, metrics_vars,
      startup_vars, meters_vars, instruments_vars, names_vars,
      stack_vars>>
outside_startup ==
    <<mapper_vars, parse_vars, unit_vars, log_vars, trace_vars,
      convert_vars, service_vars, facade_vars, metrics_vars,
      lifecycle_vars, meters_vars, instruments_vars, names_vars,
      stack_vars>>
outside_meters ==
    <<mapper_vars, parse_vars, unit_vars, log_vars, trace_vars,
      convert_vars, service_vars, facade_vars, metrics_vars,
      lifecycle_vars, startup_vars, instruments_vars, names_vars,
      stack_vars>>
outside_instruments ==
    <<mapper_vars, parse_vars, unit_vars, log_vars, trace_vars,
      convert_vars, service_vars, facade_vars, metrics_vars,
      lifecycle_vars, startup_vars, meters_vars, names_vars, stack_vars>>
outside_names ==
    <<mapper_vars, parse_vars, unit_vars, log_vars, trace_vars,
      convert_vars, service_vars, facade_vars, metrics_vars,
      lifecycle_vars, startup_vars, meters_vars, instruments_vars,
      stack_vars>>
outside_stack ==
    <<mapper_vars, parse_vars, unit_vars, log_vars, trace_vars,
      convert_vars, service_vars, facade_vars, metrics_vars,
      lifecycle_vars, startup_vars, meters_vars, instruments_vars,
      names_vars>>

\* ------------------------------------------------------------------ bounds

\* The largest number of entries of a map handed to the mapper.
MaxAttrs == 2

\* The longest text built from ParseAlphabet that is handed to parse.
MaxTextLen == 3

\* The largest number of attributes of a LogContext handed to log.
MaxLogAttrs == 2

\* The largest number of attributes handed to log_error.
MaxErrorAttrs == 2

\* The largest number of with_span calls one run of the tracing thread makes.
MaxSpans == 3

\* The largest number of spans made with create_span and held by the caller.
MaxHeldSpans == 1

\* The largest number of attributes of a MetricContext.
MaxMetricAttrs == 2

\* The number of threads that call facade::init.
MaxInitCalls == 2

\* The number of threads that call the other facade functions.
MaxUsers == 2

\* The number of threads that call facade::shutdown.
MaxShutdownCalls == 2

\* The largest number of attributes one span is given.
MaxSpanAttrs == 2

\* ------------------------------------------------------------- text helpers

\* str::starts_with
starts_with(s, prefix) ==
    /\ Len(s) >= Len(prefix)
    /\ SubSeq(s, 1, Len(prefix)) = prefix

\* --------------------------------------------------------- attribute values

\* AttributeValue: a tagged union; the payload is kept as text (the decimal
\* text of an integer, "true"/"false" of a boolean).
AV(tag, val) == [tag |-> tag, val |-> val]

AttributeTags == {"String", "Int", "Uint", "Float", "Bool"}

\* HashMap::new()
EmptyMap == [k \in {} |-> AV("String", "")]

\* HashMap::insert: a present key's value is replaced.
MapInsert(m, key, value) ==
    [k \in DOMAIN m \cup {key} |-> IF k = key THEN value ELSE m[k]]

\* Every order a HashMap with the key set S can be iterated in.
IterationOrders(S) ==
    {o \in [1..Cardinality(S) -> S] : \A i, j \in DOMAIN o : o[i] = o[j] => i = j}

\* [String]::join
RECURSIVE join(_, _)
join(strings, sep) ==
    IF strings = <<>> THEN ""
    ELSE IF Len(strings) = 1 THEN strings[1]
    ELSE strings[1] \o sep \o join(Tail(strings), sep)

\* Every list of at most n pairs over keys and values.
RECURSIVE PairListsUpTo(_, _, _)
PairListsUpTo(keys, values, n) ==
    IF n = 0 THEN {<<>>}
    ELSE LET shorter == PairListsUpTo(keys, values, n - 1)
         IN  shorter \cup
                 {Append(l, <<k, v>>) : l \in {x \in shorter : Len(x) = n - 1},
                                        k \in keys, v \in values}

\* ------------------------------------------------------------ Datadog mapper

ReservedKeys == {"service", "host", "source", "trace_id"}

DatadogPrefixes ==
    {"network.", "http.", "logger.", "error.", "usr.", "db.", "syslog.", "dns.", "evt."}

\* DatadogKey with the latency alias forgotten in the duration arm.
DatadogKey_LatencyKept(key) ==
    IF key \in ReservedKeys THEN key
    ELSE IF \E p \in DatadogPrefixes : starts_with(key, p) THEN key
    ELSE IF key \in {"user", "user_id"} THEN "usr.id"
    ELSE IF key \in {"duration", "exec_time", "time_elapsed"} THEN "duration"
    ELSE IF key \in {"ip", "client_ip", "remote_addr", "remote_ip"} THEN "network.client.ip"
    ELSE key

\* DatadogKey with the default arm filing custom keys under a namespace of
\* their own, which the prefix arm does not know.
DatadogKey_CustomNamespace(key) ==
    IF key \in ReservedKeys THEN key
    ELSE IF \E p \in DatadogPrefixes : starts_with(key, p) THEN key
    ELSE IF key \in {"user", "user_id"} THEN "usr.id"
    ELSE IF key \in {"duration", "latency", "exec_time", "time_elapsed"} THEN "duration"
    ELSE IF key \in {"ip", "client_ip", "remote_addr", "remote_ip"} THEN "network.client.ip"
    ELSE "custom." \o key

\* The key one arm of the match (logger.rs 104-136) inserts under.
DatadogKey(key) ==
    IF key \in ReservedKeys THEN key
    ELSE IF \E p \in DatadogPrefixes : starts_with(key, p) THEN key
    ELSE IF key \in {"user", "user_id"} THEN "usr.id"
    ELSE IF key \in {"duration", "latency", "exec_time", "time_elapsed"} THEN "duration"
    ELSE IF key \in {"ip", "client_ip", "remote_addr", "remote_ip"} THEN "network.client.ip"
    ELSE key

\* The loop of transform_attributes_to_datadog_format over the entries not
\* yet visited, in the order the HashMap yields them.
RECURSIVE InsertEntries(_, _, _)
InsertEntries(acc, attrs, order) ==
    IF order = <<>> THEN acc
    ELSE InsertEntries(MapInsert(acc, DatadogKey(Head(order)), attrs[Head(order)]),
                       attrs, Tail(order))

transform_attributes_to_datadog_format(attrs, order) ==
    InsertEntries(EmptyMap, attrs, order)

\* The elements of a finite set in some fixed order.
RECURSIVE SeqOf(_)
SeqOf(S) ==
    IF S = {} THEN <<>>
    ELSE LET x == CHOOSE y \in S : TRUE IN <<x>> \o SeqOf(S \ {x})

\* For each of the output keys `out`, one of the input keys mapped to it:
\* every choice of the entries that can be the last inserted under their
\* output key.
RECURSIVE LastInserted(_, _)
LastInserted(keys, out) ==
    IF out = {} THEN {{}}
    ELSE LET o == CHOOSE y \in out : TRUE
         IN  {rest \cup {k} : rest \in LastInserted(keys, out \ {o}),
                              k \in {x \in keys : DatadogKey(x) = o}}

\* Visiting orders of a HashMap that between them give every map the mapper
\* can return for it: what the mapper returns depends on the order only
\* through which entry is inserted last under each output key, and for
\* every such choice there is the order that visits the chosen entries
\* after all others.
VisitOrders(attrs) ==
    {SeqOf((DOMAIN attrs) \ last) \o SeqOf(last) :
        last \in LastInserted(DOMAIN attrs, {DatadogKey(k) : k \in DOMAIN attrs})}

\* The keys and values callers' maps are drawn from: every reserved key, a
\* key under every prefix, every alias, the alias targets, a bare prefix
\* word and custom keys.
MapperKeys ==
    {"service", "host", "source", "trace_id",
     "network.bytes", "http.status_code", "logger.name", "error.kind", "usr.name",
     "db.name", "syslog.env", "dns.id", "evt.name",
     "user", "user_id", "usr.id",
     "duration", "latency", "exec_time", "time_elapsed",
     "ip", "client_ip", "remote_addr", "remote_ip", "network.client.ip",
     "custom_attr", "status", "network", "usr"}

MapperValues == {AV("String", "42"), AV("Int", "99")}

\* The subsets of S with at most n elements.
RECURSIVE SubsetsUpTo(_, _)
SubsetsUpTo(S, n) ==
    IF n = 0 THEN {{}}
    ELSE LET smaller == SubsetsUpTo(S, n - 1)
         IN  smaller \cup {T \cup {x} : T \in smaller, x \in S}

MapsOver(keys, values, n) ==
    UNION {[S -> values] : S \in SubsetsUpTo(keys, n)}

MapperIdle ==
    /\ attributes = EmptyMap
    /\ visit_order = <<>>
    /\ datadog_attributes = EmptyMap
    /\ second_attributes = EmptyMap
    /\ remapped_attributes = EmptyMap
    /\ mapper_pc = "idle"

MapperInit ==
    /\ attributes \in MapsOver(MapperKeys, MapperValues, MaxAttrs)
    /\ visit_order = <<>>
    /\ datadog_attributes = EmptyMap
    /\ second_attributes = EmptyMap
    /\ remapped_attributes = EmptyMap
    /\ mapper_pc = "start"

\* One call of the mapper on the caller's map.
Transform ==
    /\ mapper_pc = "start"
    /\ \E order \in IterationOrders(DOMAIN attributes) :
         /\ visit_order' = order
         /\ datadog_attributes' = transform_attributes_to_datadog_format(attributes, order)
    /\ mapper_pc' = "mapped"
    /\ UNCHANGED <<attributes, second_attributes, remapped_attributes, outside_mapper>>

\* A second call on an equal map (a clone of the first call's input).
TransformAgain ==
    /\ mapper_pc = "mapped"
    /\ \E order \in IterationOrders(DOMAIN attributes) :
         second_attributes' = transform_attributes_to_datadog_format(attributes, order)
    /\ mapper_pc' = "again"
    /\ UNCHANGED <<attributes, visit_order, datadog_attributes, remapped_attributes, outside_mapper>>

\* A call on the map the first call returned.
TransformMapped ==
    /\ mapper_pc = "mapped"
    /\ \E order \in IterationOrders(DOMAIN datadog_attributes) :
         remapped_attributes' =
             transform_attributes_to_datadog_format(datadog_attributes, order)
    /\ mapper_pc' = "remapped"
    /\ UNCHANGED <<attributes, visit_order, datadog_attributes, second_attributes, outside_mapper>>

MapperNext == Transform \/ TransformAgain \/ TransformMapped

\* ------------------------------------------------------ AttributeValue::parse

Digits == {"0", "1", "2", "3", "4", "5", "6", "7", "8", "9"}

\* The i-th character of s, as a one-character text.
CharAt(s, i) == SubSeq(s, i, i)

AllDigits(s) == \A i \in 1..Len(s) : CharAt(s, i) \in Digits

DigitValue(c) ==
    CASE c = "0" -> 0 [] c = "1" -> 1 [] c = "2" -> 2 [] c = "3" -> 3 [] c = "4" -> 4
      [] c = "5" -> 5 [] c = "6" -> 6 [] c = "7" -> 7 [] c = "8" -> 8 [] c = "9" -> 9

\* The decimal text of the number a digit text denotes: leading zeros dropped.
RECURSIVE StripZeros(_)
StripZeros(s) ==
    IF Len(s) > 1 /\ Head(s) = "0" THEN StripZeros(Tail(s)) ELSE s

\* a <= b for two digit texts of the same length.
RECURSIVE DigitsLE(_, _)
DigitsLE(a, b) ==
    IF a = "" THEN TRUE
    ELSE IF Head(a) = Head(b) THEN DigitsLE(Tail(a), Tail(b))
    ELSE DigitValue(Head(a)) < DigitValue(Head(b))

\* a <= b for two decimal texts without leading zeros.
DecimalLE(a, b) ==
    \/ Len(a) < Len(b)
    \/ Len(a) = Len(b) /\ DigitsLE(a, b)

\* u128::MAX, i64::MAX and the magnitude of i64::MIN, in decimal.
U128_MAX == "340282366920938463463374607431768211455"
I64_MAX == "9223372036854775807"
I64_MIN_MAGNITUDE == "9223372036854775808"

Ok(v) == [ok |-> TRUE, val |-> v]
Err == [ok |-> FALSE, val |-> ""]

\* str::parse::<u128>: an optional '+', then digits only; a lone sign, an
\* empty text, a '-' or a value above u128::MAX is an error.
parse_u128(s) ==
    IF s = "" \/ s = "+" \/ s = "-" THEN Err
    ELSE LET digits == IF Head(s) = "+" THEN Tail(s) ELSE s
         IN  IF ~AllDigits(digits) THEN Err
             ELSE IF DecimalLE(StripZeros(digits), U128_MAX) THEN Ok(StripZeros(digits))
             ELSE Err

\* str::parse::<i64>: an optional '+' or '-', then digits only; the value
\* must lie in i64::MIN..i64::MAX.
parse_i64(s) ==
    IF s = "" \/ s = "+" \/ s = "-" THEN Err
    ELSE LET negative == Head(s) = "-"
             digits == IF Head(s) \in {"+", "-"} THEN Tail(s) ELSE s
             value == StripZeros(digits)
         IN  IF ~AllDigits(digits) THEN Err
             ELSE IF negative
                  THEN IF DecimalLE(value, I64_MIN_MAGNITUDE)
                       THEN Ok(IF value = "0" THEN "0" ELSE "-" \o value)
                       ELSE Err
                  ELSE IF DecimalLE(value, I64_MAX) THEN Ok(value) ELSE Err

UpperCase == "ABCDEFGHIJKLMNOPQRSTUVWXYZ"
LowerCase == "abcdefghijklmnopqrstuvwxyz"

\* char::to_ascii_lowercase
LowerChar(c) ==
    IF \E i \in 1..Len(UpperCase) : CharAt(UpperCase, i) = c
    THEN CharAt(LowerCase, CHOOSE i \in 1..Len(UpperCase) : CharAt(UpperCase, i) = c)
    ELSE c

RECURSIVE to_ascii_lowercase(_)
to_ascii_lowercase(s) ==
    IF s = "" THEN "" ELSE LowerChar(Head(s)) \o to_ascii_lowercase(Tail(s))

\* Digit+ | Digit+ '.' Digit* | Digit* '.' Digit+
IsMantissa(m) ==
    LET dots == {i \in 1..Len(m) : CharAt(m, i) = "."}
    IN  /\ Cardinality(dots) <= 1
        /\ \A i \in 1..Len(m) : CharAt(m, i) \in Digits \cup {"."}
        /\ \E i \in 1..Len(m) : CharAt(m, i) \in Digits

\* Sign? Digit+
IsExponent(e) ==
    LET digits == IF e # "" /\ Head(e) \in {"+", "-"} THEN Tail(e) ELSE e
    IN  digits # "" /\ AllDigits(digits)

\* str::parse::<f64>: Sign? ( 'inf' | 'infinity' | 'nan' | Number ) with
\* Number ::= mantissa ('e' exponent)?, letters in either case.  The value
\* is the f64 nearest to the text; it is kept as the text that denotes it.
parse_f64(s) ==
    LET body == IF s # "" /\ Head(s) \in {"+", "-"} THEN Tail(s) ELSE s
        low == to_ascii_lowercase(body)
        es == {i \in 1..Len(low) : CharAt(low, i) = "e"}
        first_e == CHOOSE i \in es : \A j \in es : i <= j
    IN  IF low \in {"inf", "infinity", "nan"} THEN Ok(s)
        ELSE IF es = {} THEN (IF IsMantissa(low) THEN Ok(s) ELSE Err)
        ELSE IF /\ IsMantissa(SubSeq(low, 1, first_e - 1))
                /\ IsExponent(SubSeq(low, first_e + 1, Len(low)))
             THEN Ok(s)
             ELSE Err

\* str::parse::<bool>
parse_bool(s) == IF s \in {"true", "false"} THEN Ok(s) ELSE Err

\* parse with the signed parse tried before the unsigned one.
parse_SignedFirst(value) ==
    IF parse_i64(value).ok THEN AV("Int", parse_i64(value).val)
    ELSE IF parse_u128(value).ok THEN AV("Uint", parse_u128(value).val)
    ELSE IF parse_f64(value).ok THEN AV("Float", parse_f64(value).val)
    ELSE IF parse_bool(value).ok THEN AV("Bool", parse_bool(value).val)
    ELSE AV("String", value)

\* parse with the last numeric parse unwrapped instead of tested.
parse_UnwrapFloat(value) ==
    IF parse_u128(value).ok THEN AV("Uint", parse_u128(value).val)
    ELSE IF parse_i64(value).ok THEN AV("Int", parse_i64(value).val)
    ELSE IF parse_f64(value).ok THEN AV("Float", parse_f64(value).val)
    ELSE [tag |-> "panic", val |-> "called Result::unwrap() on an Err value"]

\* AttributeValue::parse
parse(value) ==
    IF parse_u128(value).ok THEN AV("Uint", parse_u128(value).val)
    ELSE IF parse_i64(value).ok THEN AV("Int", parse_i64(value).val)
    ELSE IF parse_f64(value).ok THEN AV("Float", parse_f64(value).val)
    ELSE IF parse_bool(value).ok THEN AV("Bool", parse_bool(value).val)
    ELSE AV("String", value)

\* The texts handed to parse: every text of up to MaxTextLen characters of
\* ParseAlphabet, and texts at the edges of the integer ranges and of the
\* float and boolean grammars.
ParseAlphabet == {"0", "5", "-", "+", ".", "e", "n", "x"}

RECURSIVE TextsUpTo(_, _)
TextsUpTo(alphabet, n) ==
    IF n = 0 THEN {""}
    ELSE LET shorter == TextsUpTo(alphabet, n - 1)
         IN  shorter \cup {t \o c : t \in shorter, c \in alphabet}

EdgeTexts ==
    {"5", "-5", "3.14", "true", "false", "hello", "True", "TRUE", "truee",
     "inf", "-inf", "infinity", "nan", "NaN", "Infinity", "in", "1e5", "1E+5", "1e", ".5", "5.",
     "007", "-007", "+7", "-0", " 5", "5 ", "0x10", "1_000",
     "340282366920938463463374607431768211455",
     "340282366920938463463374607431768211456",
     "0340282366920938463463374607431768211455",
     "999999999999999999999999999999999999999999",
     "9223372036854775807", "9223372036854775808",
     "-9223372036854775807", "-9223372036854775808", "-9223372036854775809",
     "-340282366920938463463374607431768211456"}

ParseTexts == TextsUpTo(ParseAlphabet, MaxTextLen) \cup EdgeTexts

ParseIdle ==
    /\ parse_text = ""
    /\ parsed = AV("String", "")
    /\ parse_pc = "idle"

ParseInit ==
    /\ parse_text \in ParseTexts
    /\ parsed = AV("String", "")
    /\ parse_pc = "start"

\* One call of AttributeValue::parse.
Parse ==
    /\ parse_pc = "start"
    /\ parsed' = parse(parse_text)
    /\ parse_pc' = "parsed"
    /\ UNCHANGED <<parse_text, outside_parse>>

ParseNext == Parse

\* ------------------------------------------------------------- metric units

\* A MetricUnit: the category and the variant of the category's enum.
Unit(category, unit) == [category |-> category, unit |-> unit]

\* MetricUnit::Count
Count == Unit("Count", "Count")

\* No unit (Option::None).
NoUnit == Unit("None", "None")

\* enum BytesUnit
BytesUnit ==
    {"Bit", "Byte", "KiloByte", "MegaByte", "GigaByte", "TeraByte", "PetaByte",
     "ExaByte"}

\* BytesUnit::as_str
BytesUnit_as_str(unit) ==
    CASE unit = "Bit" -> "bit"
      [] unit = "Byte" -> "byte"
      [] unit = "KiloByte" -> "kilobyte"
      [] unit = "MegaByte" -> "megabyte"
      [] unit = "GigaByte" -> "gigabyte"
      [] unit = "TeraByte" -> "terabyte"
      [] unit = "PetaByte" -> "petabyte"
      [] unit = "ExaByte" -> "exabyte"

\* enum TimeUnit
TimeUnit ==
    {"Nanosecond", "Microsecond", "Millisecond", "Second", "Minute", "Hour", "Day",
     "Week"}

\* TimeUnit::as_str
TimeUnit_as_str(unit) ==
    CASE unit = "Nanosecond" -> "ns"
      [] unit = "Microsecond" -> "μs"
      [] unit = "Millisecond" -> "ms"
      [] unit = "Second" -> "s"
      [] unit = "Minute" -> "min"
      [] unit = "Hour" -> "hr"
      [] unit = "Day" -> "day"
      [] unit = "Week" -> "wk"

\* enum PercentageUnit
PercentageUnit ==
    {"PercentNano", "Percent", "Apdex", "Fraction"}

\* PercentageUnit::as_str
PercentageUnit_as_str(unit) ==
    CASE unit = "PercentNano" -> "n%"
      [] unit = "Percent" -> "%"
      [] unit = "Apdex" -> "apdex"
      [] unit = "Fraction" -> "fraction"

\* enum NetworkUnit
NetworkUnit ==
    {"Connection", "Request", "Packet", "Segment", "Response", "Message", "Payload",
     "Timeout", "Datagram", "Route", "Session", "Hop"}

\* NetworkUnit::as_str
NetworkUnit_as_str(unit) ==
    CASE unit = "Connection" -> "conn"
      [] unit = "Request" -> "req"
      [] unit = "Packet" -> "pkt"
      [] unit = "Segment" -> "seg"
      [] unit = "Response" -> "rsp"
      [] unit = "Message" -> "msg"
      [] unit = "Payload" -> "payload"
      [] unit = "Timeout" -> "timeout"
      [] unit = "Datagram" -> "datagram"
      [] unit = "Route" -> "route"
      [] unit = "Session" -> "session"
      [] unit = "Hop" -> "hop"

\* enum SystemUnit
SystemUnit ==
    {"Process", "Thread", "Host", "Node", "Fault", "Service", "Instance", "Cpu"}

\* SystemUnit::as_str
SystemUnit_as_str(unit) ==
    CASE unit = "Process" -> "proc"
      [] unit = "Thread" -> "thread"
      [] unit = "Host" -> "host"
      [] unit = "Node" -> "node"
      [] unit = "Fault" -> "fault"
      [] unit = "Service" -> "svc"
      [] unit = "Instance" -> "instance"
      [] unit = "Cpu" -> "cpu"

\* enum DiskUnit
DiskUnit ==
    {"File", "Inode", "Sector", "Block"}

\* DiskUnit::as_str
DiskUnit_as_str(unit) ==
    CASE unit = "File" -> "file"
      [] unit = "Inode" -> "inode"
      [] unit = "Sector" -> "sector"
      [] unit = "Block" -> "blk"

\* enum GeneralUnit
GeneralUnit ==
    {"Buffer", "Error", "Read", "Write", "Occurrence", "Event", "Time", "Unit",
     "Operation", "Item", "Task", "Worker", "Resource", "GarbageCollection", "Email",
     "Sample", "Stage", "Monitor", "Location", "Check", "Attempt", "Device", "Update",
     "Method", "Job", "Container", "Execution", "Throttle", "Invocation", "User",
     "Success", "Build", "Prediction", "Exception"}

\* GeneralUnit::as_str
GeneralUnit_as_str(unit) ==
    CASE unit = "Buffer" -> "buffer"
      [] unit = "Error" -> "err"
      [] unit = "Read" -> "rd"
      [] unit = "Write" -> "wr"
      [] unit = "Occurrence" -> "occurrence"
      [] unit = "Event" -> "event"
      [] unit = "Time" -> "time"
      [] unit = "Unit" -> "unit"
      [] unit = "Operation" -> "op"
      [] unit = "Item" -> "item"
      [] unit = "Task" -> "task"
      [] unit = "Worker" -> "worker"
      [] unit = "Resource" -> "res"
      [] unit = "GarbageCollection" -> "gc"
      [] unit = "Email" -> "email"
      [] unit = "Sample" -> "smpl"
      [] unit = "Stage" -> "stage"
      [] unit = "Monitor" -> "monitor"
      [] unit = "Location" -> "location"
      [] unit = "Check" -> "check"
      [] unit = "Attempt" -> "attempt"
      [] unit = "Device" -> "dev"
      [] unit = "Update" -> "up"
      [] unit = "Method" -> "mthd"
      [] unit = "Job" -> "job"
      [] unit = "Container" -> "container"
      [] unit = "Execution" -> "execution"
      [] unit = "Throttle" -> "throttle"
      [] unit = "Invocation" -> "invocation"
      [] unit = "User" -> "user"
      [] unit = "Success" -> "success"
      [] unit = "Build" -> "build"
      [] unit = "Prediction" -> "prediction"
      [] unit = "Exception" -> "exception"

\* enum DatabaseUnit
DatabaseUnit ==
    {"Table", "Index", "Lock", "Transaction", "Query", "Row", "Key", "Command",
     "Offset", "Record", "Object", "Cursor", "Assertion", "Scan", "Document", "Shard",
     "Flush", "Merge", "Refresh", "Fetch", "Column", "Commit", "Wait", "Ticket",
     "Question"}

\* DatabaseUnit::as_str
DatabaseUnit_as_str(unit) ==
    CASE unit = "Table" -> "table"
      [] unit = "Index" -> "idx"
      [] unit = "Lock" -> "lock"
      [] unit = "Transaction" -> "tx"
      [] unit = "Query" -> "query"
      [] unit = "Row" -> "row"
      [] unit = "Key" -> "key"
      [] unit = "Command" -> "cmd"
      [] unit = "Offset" -> "offset"
      [] unit = "Record" -> "record"
      [] unit = "Object" -> "object"
      [] unit = "Cursor" -> "cursor"
      [] unit = "Assertion" -> "assert"
      [] unit = "Scan" -> "scan"
      [] unit = "Document" -> "document"
      [] unit = "Shard" -> "shard"
      [] unit = "Flush" -> "flush"
      [] unit = "Merge" -> "merge"
      [] unit = "Refresh" -> "refresh"
      [] unit = "Fetch" -> "fetch"
      [] unit = "Column" -> "col"
      [] unit = "Commit" -> "commit"
      [] unit = "Wait" -> "wait"
      [] unit = "Ticket" -> "ticket"
      [] unit = "Question" -> "question"

\* enum CacheUnit
CacheUnit ==
    {"Hit", "Miss", "Eviction", "Get", "Set"}

\* CacheUnit::as_str
CacheUnit_as_str(unit) ==
    CASE unit = "Hit" -> "hit"
      [] unit = "Miss" -> "miss"
      [] unit = "Eviction" -> "eviction"
      [] unit = "Get" -> "get"
      [] unit = "Set" -> "set"

\* enum MoneyUnit
MoneyUnit ==
    {"Dollar", "Cent", "MicroDollar", "Euro", "Pound", "Pence", "Yen"}

\* MoneyUnit::as_str
MoneyUnit_as_str(unit) ==
    CASE unit = "Dollar" -> "$"
      [] unit = "Cent" -> "¢"
      [] unit = "MicroDollar" -> "μ$"
      [] unit = "Euro" -> "€"
      [] unit = "Pound" -> "£"
      [] unit = "Pence" -> "p"
      [] unit = "Yen" -> "¥"

\* enum MemoryUnit
MemoryUnit ==
    {"Page", "Split"}

\* MemoryUnit::as_str
MemoryUnit_as_str(unit) ==
    CASE unit = "Page" -> "pg"
      [] unit = "Split" -> "split"

\* enum FrequencyUnit
FrequencyUnit ==
    {"Hertz", "Kilohertz", "Megahertz", "Gigahertz"}

\* FrequencyUnit::as_str
FrequencyUnit_as_str(unit) ==
    CASE unit = "Hertz" -> "Hz"
      [] unit = "Kilohertz" -> "kHz"
      [] unit = "Megahertz" -> "MHz"
      [] unit = "Gigahertz" -> "GHz"

\* enum LoggingUnit
LoggingUnit ==
    {"Entry"}

\* LoggingUnit::as_str
LoggingUnit_as_str(unit) ==
    CASE unit = "Entry" -> "entry"

\* enum TemperatureUnit
TemperatureUnit ==
    {"DeciDegreeCelsius", "DegreeCelsius", "DegreeFahrenheit"}

\* TemperatureUnit::as_str
TemperatureUnit_as_str(unit) ==
    CASE unit = "DeciDegreeCelsius" -> "d°C"
      [] unit = "DegreeCelsius" -> "°C"
      [] unit = "DegreeFahrenheit" -> "°F"

\* enum CpuUnit
CpuUnit ==
    {"NanoCore", "MicroCore", "MilliCore", "Core", "KiloCore", "MegaCore", "GigaCore",
     "TeraCore", "PetaCore", "ExaCore"}

\* CpuUnit::as_str
CpuUnit_as_str(unit) ==
    CASE unit = "NanoCore" -> "ncores"
      [] unit = "MicroCore" -> "μcores"
      [] unit = "MilliCore" -> "mcores"
      [] unit = "Core" -> "core"
      [] unit = "KiloCore" -> "Kcores"
      [] unit = "MegaCore" -> "Mcores"
      [] unit = "GigaCore" -> "Gcores"
      [] unit = "TeraCore" -> "Tcores"
      [] unit = "PetaCore" -> "Pcores"
      [] unit = "ExaCore" -> "Ecores"

\* enum PowerUnit
PowerUnit ==
    {"Nanowatt", "Microwatt", "Milliwatt", "Deciwatt", "Watt", "Kilowatt", "Megawatt",
     "Gigawatt", "Terrawatt"}

\* PowerUnit::as_str
PowerUnit_as_str(unit) ==
    CASE unit = "Nanowatt" -> "nW"
      [] unit = "Microwatt" -> "μW"
      [] unit = "Milliwatt" -> "mW"
      [] unit = "Deciwatt" -> "dW"
      [] unit = "Watt" -> "watt"
      [] unit = "Kilowatt" -> "kilowatt"
      [] unit = "Megawatt" -> "megawatt"
      [] unit = "Gigawatt" -> "gigawatt"
      [] unit = "Terrawatt" -> "terrawatt"

\* enum CurrentUnit
CurrentUnit ==
    {"Milliampere", "Ampere"}

\* CurrentUnit::as_str
CurrentUnit_as_str(unit) ==
    CASE unit = "Milliampere" -> "mA"
      [] unit = "Ampere" -> "A"

\* enum PotentialUnit
PotentialUnit ==
    {"Millivolt", "Volt"}

\* PotentialUnit::as_str
PotentialUnit_as_str(unit) ==
    CASE unit = "Millivolt" -> "mV"
      [] unit = "Volt" -> "V"

\* enum ApmUnit
ApmUnit ==
    {"Span"}

\* ApmUnit::as_str
ApmUnit_as_str(unit) ==
    CASE unit = "Span" -> "span"

\* enum SyntheticsUnit
SyntheticsUnit ==
    {"Run", "Step"}

\* SyntheticsUnit::as_str
SyntheticsUnit_as_str(unit) ==
    CASE unit = "Run" -> "run"
      [] unit = "Step" -> "step"

\* enum MetricUnit: every value of every category.
MetricUnits ==
    {Unit("Bytes", u) : u \in BytesUnit}
    \cup {Unit("Time", u) : u \in TimeUnit}
    \cup {Unit("Percentage", u) : u \in PercentageUnit}
    \cup {Unit("Network", u) : u \in NetworkUnit}
    \cup {Unit("System", u) : u \in SystemUnit}
    \cup {Unit("Disk", u) : u \in DiskUnit}
    \cup {Unit("General", u) : u \in GeneralUnit}
    \cup {Unit("Database", u) : u \in DatabaseUnit}
    \cup {Unit("Cache", u) : u \in CacheUnit}
    \cup {Unit("Money", u) : u \in MoneyUnit}
    \cup {Unit("Memory", u) : u \in MemoryUnit}
    \cup {Unit("Frequency", u) : u \in FrequencyUnit}
    \cup {Unit("Logging", u) : u \in LoggingUnit}
    \cup {Unit("Temperature", u) : u \in TemperatureUnit}
    \cup {Unit("Cpu", u) : u \in CpuUnit}
    \cup {Unit("Power", u) : u \in PowerUnit}
    \cup {Unit("Current", u) : u \in CurrentUnit}
    \cup {Unit("Potential", u) : u \in PotentialUnit}
    \cup {Unit("Apm", u) : u \in ApmUnit}
    \cup {Unit("Synthetics", u) : u \in SyntheticsUnit}
    \cup {Count}

\* MetricUnit::as_str
as_str(m) ==
    CASE m.category = "Bytes" -> BytesUnit_as_str(m.unit)
      [] m.category = "Time" -> TimeUnit_as_str(m.unit)
      [] m.category = "Percentage" -> PercentageUnit_as_str(m.unit)
      [] m.category = "Network" -> NetworkUnit_as_str(m.unit)
      [] m.category = "System" -> SystemUnit_as_str(m.unit)
      [] m.category = "Disk" -> DiskUnit_as_str(m.unit)
      [] m.category = "General" -> GeneralUnit_as_str(m.unit)
      [] m.category = "Database" -> DatabaseUnit_as_str(m.unit)
      [] m.category = "Cache" -> CacheUnit_as_str(m.unit)
      [] m.category = "Money" -> MoneyUnit_as_str(m.unit)
      [] m.category = "Memory" -> MemoryUnit_as_str(m.unit)
      [] m.category = "Frequency" -> FrequencyUnit_as_str(m.unit)
      [] m.category = "Logging" -> LoggingUnit_as_str(m.unit)
      [] m.category = "Temperature" -> TemperatureUnit_as_str(m.unit)
      [] m.category = "Cpu" -> CpuUnit_as_str(m.unit)
      [] m.category = "Power" -> PowerUnit_as_str(m.unit)
      [] m.category = "Current" -> CurrentUnit_as_str(m.unit)
      [] m.category = "Potential" -> PotentialUnit_as_str(m.unit)
      [] m.category = "Apm" -> ApmUnit_as_str(m.unit)
      [] m.category = "Synthetics" -> SyntheticsUnit_as_str(m.unit)
      [] m.category = "Count" -> "count"

\* What a call of from_str ends in: the unit it returns, or a panic.
Returned(unit) == [panic |-> FALSE, unit |-> unit, message |-> ""]
Panicked(message) == [panic |-> TRUE, unit |-> NoUnit, message |-> message]

\* MetricUnit::from_str: the match of metrics.rs 60-228; its last arm panics.
from_str(s) ==
    CASE s = "bit" -> Returned(Unit("Bytes", "Bit"))
      [] s = "byte" -> Returned(Unit("Bytes", "Byte"))
      [] s = "kilobyte" -> Returned(Unit("Bytes", "KiloByte"))
      [] s = "megabyte" -> Returned(Unit("Bytes", "MegaByte"))
      [] s = "gigabyte" -> Returned(Unit("Bytes", "GigaByte"))
      [] s = "terabyte" -> Returned(Unit("Bytes", "TeraByte"))
      [] s = "ns" -> Returned(Unit("Time", "Nanosecond"))
      [] s = "μs" -> Returned(Unit("Time", "Microsecond"))
      [] s = "ms" -> Returned(Unit("Time", "Millisecond"))
      [] s = "s" -> Returned(Unit("Time", "Second"))
      [] s = "min" -> Returned(Unit("Time", "Minute"))
      [] s = "hr" -> Returned(Unit("Time", "Hour"))
      [] s = "day" -> Returned(Unit("Time", "Day"))
      [] s = "wk" -> Returned(Unit("Time", "Week"))
      [] s = "n%" -> Returned(Unit("Percentage", "PercentNano"))
      [] s = "%" -> Returned(Unit("Percentage", "Percent"))
      [] s = "apdex" -> Returned(Unit("Percentage", "Apdex"))
      [] s = "fraction" -> Returned(Unit("Percentage", "Fraction"))
      [] s = "conn" -> Returned(Unit("Network", "Connection"))
      [] s = "req" -> Returned(Unit("Network", "Request"))
      [] s = "pkt" -> Returned(Unit("Network", "Packet"))
      [] s = "seg" -> Returned(Unit("Network", "Segment"))
      [] s = "rsp" -> Returned(Unit("Network", "Response"))
      [] s = "msg" -> Returned(Unit("Network", "Message"))
      [] s = "payload" -> Returned(Unit("Network", "Payload"))
      [] s = "timeout" -> Returned(Unit("Network", "Timeout"))
      [] s = "datagram" -> Returned(Unit("Network", "Datagram"))
      [] s = "route" -> Returned(Unit("Network", "Route"))
      [] s = "session" -> Returned(Unit("Network", "Session"))
      [] s = "hop" -> Returned(Unit("Network", "Hop"))
      [] s = "proc" -> Returned(Unit("System", "Process"))
      [] s = "thread" -> Returned(Unit("System", "Thread"))
      [] s = "host" -> Returned(Unit("System", "Host"))
      [] s = "node" -> Returned(Unit("System", "Node"))
      [] s = "fault" -> Returned(Unit("System", "Fault"))
      [] s = "svc" -> Returned(Unit("System", "Service"))
      [] s = "instance" -> Returned(Unit("System", "Instance"))
      [] s = "cpu" -> Returned(Unit("System", "Cpu"))
      [] s = "buffer" -> Returned(Unit("General", "Buffer"))
      [] s = "err" -> Returned(Unit("General", "Error"))
      [] s = "rd" -> Returned(Unit("General", "Read"))
      [] s = "wr" -> Returned(Unit("General", "Write"))
      [] s = "occurrence" -> Returned(Unit("General", "Occurrence"))
      [] s = "event" -> Returned(Unit("General", "Event"))
      [] s = "time" -> Returned(Unit("General", "Time"))
      [] s = "unit" -> Returned(Unit("General", "Unit"))
      [] s = "op" -> Returned(Unit("General", "Operation"))
      [] s = "item" -> Returned(Unit("General", "Item"))
      [] s = "task" -> Returned(Unit("General", "Task"))
      [] s = "worker" -> Returned(Unit("General", "Worker"))
      [] s = "res" -> Returned(Unit("General", "Resource"))
      [] s = "gc" -> Returned(Unit("General", "GarbageCollection"))
      [] s = "email" -> Returned(Unit("General", "Email"))
      [] s = "smpl" -> Returned(Unit("General", "Sample"))
      [] s = "stage" -> Returned(Unit("General", "Stage"))
      [] s = "monitor" -> Returned(Unit("General", "Monitor"))
      [] s = "location" -> Returned(Unit("General", "Location"))
      [] s = "check" -> Returned(Unit("General", "Check"))
      [] s = "attempt" -> Returned(Unit("General", "Attempt"))
      [] s = "dev" -> Returned(Unit("General", "Device"))
      [] s = "up" -> Returned(Unit("General", "Update"))
      [] s = "mthd" -> Returned(Unit("General", "Method"))
      [] s = "job" -> Returned(Unit("General", "Job"))
      [] s = "container" -> Returned(Unit("General", "Container"))
      [] s = "execution" -> Returned(Unit("General", "Execution"))
      [] s = "throttle" -> Returned(Unit("General", "Throttle"))
      [] s = "invocation" -> Returned(Unit("General", "Invocation"))
      [] s = "user" -> Returned(Unit("General", "User"))
      [] s = "success" -> Returned(Unit("General", "Success"))
      [] s = "build" -> Returned(Unit("General", "Build"))
      [] s = "prediction" -> Returned(Unit("General", "Prediction"))
      [] s = "exception" -> Returned(Unit("General", "Exception"))
      [] s = "table" -> Returned(Unit("Database", "Table"))
      [] s = "idx" -> Returned(Unit("Database", "Index"))
      [] s = "lock" -> Returned(Unit("Database", "Lock"))
      [] s = "tx" -> Returned(Unit("Database", "Transaction"))
      [] s = "query" -> Returned(Unit("Database", "Query"))
      [] s = "row" -> Returned(Unit("Database", "Row"))
      [] s = "key" -> Returned(Unit("Database", "Key"))
      [] s = "cmd" -> Returned(Unit("Database", "Command"))
      [] s = "offset" -> Returned(Unit("Database", "Offset"))
      [] s = "record" -> Returned(Unit("Database", "Record"))
      [] s = "object" -> Returned(Unit("Database", "Object"))
      [] s = "cursor" -> Returned(Unit("Database", "Cursor"))
      [] s = "assert" -> Returned(Unit("Database", "Assertion"))
      [] s = "scan" -> Returned(Unit("Database", "Scan"))
      [] s = "document" -> Returned(Unit("Database", "Document"))
      [] s = "shard" -> Returned(Unit("Database", "Shard"))
      [] s = "flush" -> Returned(Unit("Database", "Flush"))
      [] s = "merge" -> Returned(Unit("Database", "Merge"))
      [] s = "refresh" -> Returned(Unit("Database", "Refresh"))
      [] s = "fetch" -> Returned(Unit("Database", "Fetch"))
      [] s = "col" -> Returned(Unit("Database", "Column"))
      [] s = "commit" -> Returned(Unit("Database", "Commit"))
      [] s = "wait" -> Returned(Unit("Database", "Wait"))
      [] s = "ticket" -> Returned(Unit("Database", "Ticket"))
      [] s = "question" -> Returned(Unit("Database", "Question"))
      [] s = "hit" -> Returned(Unit("Cache", "Hit"))
      [] s = "miss" -> Returned(Unit("Cache", "Miss"))
      [] s = "eviction" -> Returned(Unit("Cache", "Eviction"))
      [] s = "get" -> Returned(Unit("Cache", "Get"))
      [] s = "set" -> Returned(Unit("Cache", "Set"))
      [] s = "$" -> Returned(Unit("Money", "Dollar"))
      [] s = "¢" -> Returned(Unit("Money", "Cent"))
      [] s = "μ$" -> Returned(Unit("Money", "MicroDollar"))
      [] s = "€" -> Returned(Unit("Money", "Euro"))
      [] s = "£" -> Returned(Unit("Money", "Pound"))
      [] s = "p" -> Returned(Unit("Money", "Pence"))
      [] s = "¥" -> Returned(Unit("Money", "Yen"))
      [] s = "pg" -> Returned(Unit("Memory", "Page"))
      [] s = "split" -> Returned(Unit("Memory", "Split"))
      [] s = "Hz" -> Returned(Unit("Frequency", "Hertz"))
      [] s = "kHz" -> Returned(Unit("Frequency", "Kilohertz"))
      [] s = "MHz" -> Returned(Unit("Frequency", "Megahertz"))
      [] s = "GHz" -> Returned(Unit("Frequency", "Gigahertz"))
      [] s = "entry" -> Returned(Unit("Logging", "Entry"))
      [] s = "d°C" -> Returned(Unit("Temperature", "DeciDegreeCelsius"))
      [] s = "°C" -> Returned(Unit("Temperature", "DegreeCelsius"))
      [] s = "°F" -> Returned(Unit("Temperature", "DegreeFahrenheit"))
      [] s = "ncores" -> Returned(Unit("Cpu", "NanoCore"))
      [] s = "μcores" -> Returned(Unit("Cpu", "MicroCore"))
      [] s = "mcores" -> Returned(Unit("Cpu", "MilliCore"))
      [] s = "core" -> Returned(Unit("Cpu", "Core"))
      [] s = "Kcores" -> Returned(Unit("Cpu", "KiloCore"))
      [] s = "Mcores" -> Returned(Unit("Cpu", "MegaCore"))
      [] s = "Gcores" -> Returned(Unit("Cpu", "GigaCore"))
      [] s = "Tcores" -> Returned(Unit("Cpu", "TeraCore"))
      [] s = "Pcores" -> Returned(Unit("Cpu", "PetaCore"))
      [] s = "Ecores" -> Returned(Unit("Cpu", "ExaCore"))
      [] s = "nW" -> Returned(Unit("Power", "Nanowatt"))
      [] s = "μW" -> Returned(Unit("Power", "Microwatt"))
      [] s = "mW" -> Returned(Unit("Power", "Milliwatt"))
      [] s = "dW" -> Returned(Unit("Power", "Deciwatt"))
      [] s = "watt" -> Returned(Unit("Power", "Watt"))
      [] s = "kilowatt" -> Returned(Unit("Power", "Kilowatt"))
      [] s = "megawatt" -> Returned(Unit("Power", "Megawatt"))
      [] s = "gigawatt" -> Returned(Unit("Power", "Gigawatt"))
      [] s = "terrawatt" -> Returned(Unit("Power", "Terrawatt"))
      [] s = "mA" -> Returned(Unit("Current", "Milliampere"))
      [] s = "A" -> Returned(Unit("Current", "Ampere"))
      [] s = "mV" -> Returned(Unit("Potential", "Millivolt"))
      [] s = "V" -> Returned(Unit("Potential", "Volt"))
      [] s = "span" -> Returned(Unit("Apm", "Span"))
      [] s = "run" -> Returned(Unit("Synthetics", "Run"))
      [] s = "step" -> Returned(Unit("Synthetics", "Step"))
      [] s = "count" -> Returned(Count)
      [] OTHER -> Panicked("Unknown metric unit: " \o s)

\* The texts handed to from_str that are the code of no unit: the unit
\* words of the counter!, gauge! and histogram! examples (lib.rs 143, 194,
\* 246) and other near misses.
ForeignUnitTexts == {"requests", "percent", "milliseconds", "", "MS", "bytes", "seconds"}

UnitIdle ==
    /\ unit_in = NoUnit
    /\ unit_code = ""
    /\ unit_out = Returned(NoUnit)
    /\ unit_pc = "idle"

\* Either a unit whose code is taken and looked up, or a text that is
\* looked up.
UnitInit ==
    /\ unit_out = Returned(NoUnit)
    /\ \/ /\ unit_in \in MetricUnits
          /\ unit_code = ""
          /\ unit_pc = "start"
       \/ /\ unit_in = NoUnit
          /\ unit_code \in ForeignUnitTexts
          /\ unit_pc = "coded"

\* unit.as_str()
AsStr ==
    /\ unit_pc = "start"
    /\ unit_code' = as_str(unit_in)
    /\ unit_pc' = "coded"
    /\ UNCHANGED <<unit_in, unit_out, outside_units>>

\* MetricUnit::from_str(code), as the metric macros call it on their unit
\* argument (lib.rs 169).
FromStr ==
    /\ unit_pc = "coded"
    /\ unit_out' = from_str(unit_code)
    /\ unit_pc' = IF from_str(unit_code).panic THEN "panicked" ELSE "decoded"
    /\ UNCHANGED <<unit_in, unit_code, outside_units>>

UnitNext == AsStr \/ FromStr

\* -------------------------------------------------------- DatadogLogger::log

LogLevels == {"Trace", "Debug", "Info", "Warn", "Error", "Critical"}

\* to_tracing_level with Warn given the level of Info.
to_tracing_level_WarnAsInfo(level) ==
    CASE level = "Debug" -> "DEBUG"
      [] level = "Info" -> "INFO"
      [] level = "Warn" -> "INFO"
      [] level = "Error" -> "ERROR"
      [] level = "Critical" -> "ERROR"
      [] level = "Trace" -> "TRACE"

\* DatadogLogger::to_tracing_level
to_tracing_level(level) ==
    CASE level = "Debug" -> "DEBUG"
      [] level = "Info" -> "INFO"
      [] level = "Warn" -> "WARN"
      [] level = "Error" -> "ERROR"
      [] level = "Critical" -> "ERROR"
      [] level = "Trace" -> "TRACE"

\* to_datadog_status with Critical collapsed into error, as the tracing
\* level is.
to_datadog_status_Collapsed(level) ==
    CASE level = "Debug" -> "debug"
      [] level = "Info" -> "info"
      [] level = "Warn" -> "warn"
      [] level = "Error" -> "error"
      [] level = "Critical" -> "error"
      [] level = "Trace" -> "trace"

\* DatadogLogger::to_datadog_status
to_datadog_status(level) ==
    CASE level = "Debug" -> "debug"
      [] level = "Info" -> "info"
      [] level = "Warn" -> "warn"
      [] level = "Error" -> "error"
      [] level = "Critical" -> "critical"
      [] level = "Trace" -> "trace"

\* Option<String>::None for a LogContext's target.
NoTarget == "<none>"

\* log, lines 257-270: status and service are inserted when absent.
PrepareAttributes(context, service) ==
    LET with_status ==
            IF "status" \notin DOMAIN context.attributes
            THEN MapInsert(context.attributes, "status",
                           AV("String", to_datadog_status(context.level)))
            ELSE context.attributes
    IN  IF "service" \notin DOMAIN with_status
        THEN MapInsert(with_status, "service", AV("String", service))
        ELSE with_status

\* log, lines 288-398: an event at the tracing level, its target "app"
\* when the context has none; the match has no arm for TRACE, whose
\* message is printed and not emitted.
EmittedEvents(context) ==
    IF to_tracing_level(context.level) \in {"ERROR", "WARN", "INFO", "DEBUG"}
    THEN <<[level |-> to_tracing_level(context.level),
            target |-> IF context.target = NoTarget THEN "app" ELSE context.target,
            message |-> context.message]>>
    ELSE <<>>

LogKeys == {"status", "service", "host", "user_id", "usr.id", "custom_attr"}

LogValues == {AV("String", "caller-value"), AV("String", "info")}

LogContexts ==
    [level : LogLevels,
     message : {"Test message"},
     target : {NoTarget, "test_target"},
     attributes : MapsOver(LogKeys, LogValues, MaxLogAttrs)]

\* No log_error call: log is called directly.
NoErrorCall == [chain |-> <<>>, target |-> NoTarget, attributes |-> <<>>]

\* The LogContext of a logger that log has not been called on.
NoLogContext ==
    [level |-> "Info", message |-> "", target |-> NoTarget, attributes |-> EmptyMap]

\* extract_stack_trace: the display texts of the error and of its chain of
\* sources, which `chain` lists, joined.
extract_stack_trace(chain) == join(chain, "\n    caused by: ")

\* str::split(sep).last(): what follows the last sep, or all of s.
RECURSIVE split_last(_, _)
split_last(s, sep) ==
    LET starts == {i \in 1..(Len(s) - Len(sep) + 1) :
                       SubSeq(s, i, i + Len(sep) - 1) = sep}
    IN  IF starts = {} THEN s
        ELSE LET first == CHOOSE i \in starts : \A j \in starts : i <= j
             IN  split_last(SubSeq(s, first + Len(sep), Len(s)), sep)

\* extract_error_kind: the last path segment of the type name of
\* `dyn std::error::Error`, whatever the error is.
extract_error_kind(chain) == split_last("dyn core::error::Error", "::")

\* Iterator::collect into a HashMap that keeps the first value of a key.
collect_FirstWins(pairs) ==
    LET RECURSIVE Fold(_)
        Fold(n) ==
            IF n = 0 THEN EmptyMap
            ELSE IF pairs[n][1] \in DOMAIN Fold(n - 1) THEN Fold(n - 1)
            ELSE MapInsert(Fold(n - 1), pairs[n][1], pairs[n][2])
    IN  Fold(Len(pairs))

\* Iterator::collect into a HashMap: the pairs are inserted in order, so
\* the last value of a key stays.
collect(pairs) ==
    LET RECURSIVE Fold(_)
        Fold(n) ==
            IF n = 0 THEN EmptyMap
            ELSE MapInsert(Fold(n - 1), pairs[n][1], pairs[n][2])
    IN  Fold(Len(pairs))

\* log_error, lines 201-238: the LogContext built from the error (the
\* display texts of it and of its sources), the target and the attributes.
log_error_context(call) ==
    [level |-> "Error",
     message |-> call.chain[1],
     target |-> call.target,
     attributes |->
         collect(call.attributes
                 \o << <<"logger.name",
                         AV("String", IF call.target = NoTarget THEN "app"
                                      ELSE call.target)>>,
                       <<"error.stack", AV("String", extract_stack_trace(call.chain))>>,
                       <<"error.message", AV("String", call.chain[1])>>,
                       <<"error.kind", AV("String", extract_error_kind(call.chain))>> >>)]

ErrorKeys == {"transaction_id", "user_id", "error.message", "logger.name"}

ErrorValues == {AV("String", "abc123"), AV("Int", "7")}

ErrorCalls ==
    [chain : {<<"Main error">>, <<"Main error", "Nested error cause">>},
     target : {NoTarget, "error_logger"},
     attributes : PairListsUpTo(ErrorKeys, ErrorValues, MaxErrorAttrs)]

LogIdle ==
    /\ service_name = ""
    /\ log_context = NoLogContext
    /\ prepared_attributes = EmptyMap
    /\ logged_attributes = EmptyMap
    /\ tracing_events = <<>>
    /\ log_pc = "idle"
    /\ error_call = NoErrorCall

\* DatadogLogger::new(service_name) and a LogContext to log, or an error to
\* log with log_error.
LogInit ==
    /\ service_name \in {"test-service", "info"}
    /\ \/ log_context \in LogContexts /\ error_call = NoErrorCall
       \/ log_context = NoLogContext /\ error_call \in ErrorCalls
    /\ prepared_attributes = EmptyMap
    /\ logged_attributes = EmptyMap
    /\ tracing_events = <<>>
    /\ log_pc = "start"

\* The body of DatadogLogger::log(context).
LogBody(context) ==
    /\ prepared_attributes' = PrepareAttributes(context, service_name)
    /\ \E order \in VisitOrders(PrepareAttributes(context, service_name)) :
         logged_attributes' =
             transform_attributes_to_datadog_format(
                 PrepareAttributes(context, service_name), order)
    /\ tracing_events' = tracing_events \o EmittedEvents(context)
    /\ log_pc' = "logged"

\* DatadogLogger::log(context)
Log ==
    /\ log_pc = "start"
    /\ error_call = NoErrorCall
    /\ LogBody(log_context)
    /\ UNCHANGED <<service_name, log_context, error_call, outside_log>>

\* DatadogLogger::log_error(error, target, attributes), which ends in
\* self.log(context).
LogError ==
    /\ log_pc = "start"
    /\ error_call # NoErrorCall
    /\ log_context' = log_error_context(error_call)
    /\ LogBody(log_error_context(error_call))
    /\ UNCHANGED <<service_name, error_call, outside_log>>

LogNext == Log \/ LogError

\* ------------------------------------------------- spans and their contexts

\* opentelemetry::KeyValue: a key and a typed SDK value (payload as text).
KeyValue(key, type, val) == [key |-> key, type |-> type, val |-> val]

\* u128::to_string: an integer is held as its decimal text without leading
\* zeros, which is the text to_string writes.
u128_to_string(u) == StripZeros(u)

\* to_key_value with Uint handed over as a signed 64-bit integer.
to_key_value_UintAsInt(key, value) ==
    CASE value.tag = "String" -> KeyValue(key, "String", value.val)
      [] value.tag = "Int" -> KeyValue(key, "I64", value.val)
      [] value.tag = "Float" -> KeyValue(key, "F64", value.val)
      [] value.tag = "Bool" -> KeyValue(key, "Bool", value.val)
      [] value.tag = "Uint" ->
            KeyValue(key, "I64",
                     IF DecimalLE(value.val, I64_MAX) THEN value.val ELSE "-1")

\* domain::telemetry::to_key_value
to_key_value(key, value) ==
    CASE value.tag = "String" -> KeyValue(key, "String", value.val)
      [] value.tag = "Int" -> KeyValue(key, "I64", value.val)
      [] value.tag = "Float" -> KeyValue(key, "F64", value.val)
      [] value.tag = "Bool" -> KeyValue(key, "Bool", value.val)
      [] value.tag = "Uint" -> KeyValue(key, "String", u128_to_string(value.val))

\* DatadogSpan::set_attribute, lines 111-117: the match that builds the
\* KeyValue handed to the span.
set_attribute_key_value(key, value) ==
    CASE value.tag = "String" -> KeyValue(key, "String", value.val)
      [] value.tag = "Int" -> KeyValue(key, "I64", value.val)
      [] value.tag = "Float" -> KeyValue(key, "F64", value.val)
      [] value.tag = "Bool" -> KeyValue(key, "Bool", value.val)
      [] value.tag = "Uint" -> KeyValue(key, "String", u128_to_string(value.val))

\* create_span, lines 60-62: every attribute of the SpanContext converted.
ConvertAttributes(attrs) ==
    [i \in 1..Len(attrs) |-> to_key_value(attrs[i][1], attrs[i][2])]

\* Context::current() holding no span.
NoSpan == 0

\* A with_span frame whose context is not attached yet holds no guard.
NoGuard == -1

\* A with_span frame whose closure has not returned yet.
NoResult == "<running>"

\* One entry of trace_log: what was done to which span, and for the return
\* of a closure what it returned.
Event(op, span, result) == [op |-> op, span |-> span, result |-> result]

\* The parent a span started in the context cx gets: the span of cx.
ParentOf(cx) == cx

\* DatadogTracer::create_span: a span started within the current context,
\* its attributes converted; the DatadogSpan holds the context with it.
create_span(context, cx, kind) ==
    [name |-> context.name,
     parent |-> ParentOf(cx),
     kind |-> kind,
     given |-> [i \in 1..Len(context.attributes) |->
                   [key |-> context.attributes[i][1],
                    value |-> context.attributes[i][2],
                    via |-> "create_span"]],
     attributes |-> ConvertAttributes(context.attributes),
     end_calls |-> 0]

\* A guard dropped with the context it was made in still current: no
\* context was restored.
DetachedContext_Kept(frame, cx) == cx

\* drop(guard): the context that was current when the guard was made is
\* current again.
DetachedContext(frame, cx) == frame.guard

SpanNames == {"process_request"}

SetAttributeKeys == {"user_id", "attempt"}

\* One value of each variant, the integers at the ends of their ranges.
SpanValues ==
    {AV("String", "12345"), AV("Int", "-9223372036854775808"),
     AV("Uint", U128_MAX), AV("Float", "3.14"), AV("Bool", "true")}

\* The attribute lists of the with_span! examples.
WithSpanAttributes ==
    {<<>>, << <<"user_id", AV("String", "12345")>> >>}

\* The attribute lists handed to create_span directly.
SpanAttributes ==
    {<<>>} \cup {<< <<"request_id", v>> >> : v \in SpanValues}

\* What a closure handed to with_span returns.
ClosureResults == {"done", "42"}

\* The thread is outside every with_span or inside the closure of the
\* innermost one, where it can make calls of its own.
AtCallSite ==
    IF frames = <<>> THEN TRUE ELSE frames[Len(frames)].pc = "attached"

TraceIdle ==
    /\ current_cx = NoSpan
    /\ spans = <<>>
    /\ frames = <<>>
    /\ trace_log = <<>>
    /\ returned = <<>>

\* A thread with an empty current context and no span yet.
TraceInit ==
    /\ current_cx = NoSpan
    /\ spans = <<>>
    /\ frames = <<>>
    /\ trace_log = <<>>
    /\ returned = <<>>

\* with_span, lines 18-21: the span is created in the current context.
WithSpanCreate ==
    /\ AtCallSite
    /\ Len(spans) < MaxSpans
    /\ \E name \in SpanNames, attrs \in WithSpanAttributes :
         spans' = Append(spans,
                         create_span([name |-> name, attributes |-> attrs],
                                     current_cx, "with_span"))
    /\ frames' = Append(frames, [span |-> Len(spans) + 1, guard |-> NoGuard,
                                 pc |-> "created", result |-> NoResult])
    /\ trace_log' = Append(trace_log, Event("create", Len(spans) + 1, NoResult))
    /\ UNCHANGED <<current_cx, returned, outside_trace>>

\* with_span, lines 24-27: the span's context is attached; the guard keeps
\* the context that was current.
WithSpanAttach ==
    /\ frames # <<>>
    /\ frames[Len(frames)].pc = "created"
    /\ frames' = [frames EXCEPT ![Len(frames)].guard = current_cx,
                                ![Len(frames)].pc = "attached"]
    /\ current_cx' = frames[Len(frames)].span
    /\ trace_log' = Append(trace_log,
                           Event("attach", frames[Len(frames)].span, NoResult))
    /\ UNCHANGED <<spans, returned, outside_trace>>

\* with_span, line 30: the closure returns its result.
WithSpanRun ==
    /\ frames # <<>>
    /\ frames[Len(frames)].pc = "attached"
    /\ \E result \in ClosureResults :
         /\ frames' = [frames EXCEPT ![Len(frames)].result = result,
                                     ![Len(frames)].pc = "ran"]
         /\ trace_log' = Append(trace_log,
                                Event("run", frames[Len(frames)].span, result))
    /\ UNCHANGED <<current_cx, spans, returned, outside_trace>>

\* with_span, line 33: span.end().
WithSpanEnd ==
    /\ frames # <<>>
    /\ frames[Len(frames)].pc = "ran"
    /\ spans' = [spans EXCEPT ![frames[Len(frames)].span].end_calls = @ + 1]
    /\ frames' = [frames EXCEPT ![Len(frames)].pc = "ended"]
    /\ trace_log' = Append(trace_log,
                           Event("end", frames[Len(frames)].span, NoResult))
    /\ UNCHANGED <<current_cx, returned, outside_trace>>

\* with_span, lines 36-38: the guard is dropped and the result returned.
WithSpanDetach ==
    /\ frames # <<>>
    /\ frames[Len(frames)].pc = "ended"
    /\ current_cx' = DetachedContext(frames[Len(frames)], current_cx)
    /\ returned' = Append(returned, [span |-> frames[Len(frames)].span,
                                     result |-> frames[Len(frames)].result])
    /\ frames' = SubSeq(frames, 1, Len(frames) - 1)
    /\ trace_log' = Append(trace_log,
                           Event("detach", frames[Len(frames)].span, NoResult))
    /\ UNCHANGED <<spans, outside_trace>>

\* facade::create_span (the span! macro): a span the caller holds and whose
\* context is not attached.
CreateSpan ==
    /\ Len(spans) < MaxHeldSpans
    /\ \E name \in SpanNames, attrs \in SpanAttributes :
         spans' = Append(spans,
                         create_span([name |-> name, attributes |-> attrs],
                                     current_cx, "held"))
    /\ trace_log' = Append(trace_log, Event("create", Len(spans) + 1, NoResult))
    /\ UNCHANGED <<current_cx, frames, returned, outside_trace>>

\* DatadogSpan::set_attribute on the span the caller holds.
SetAttribute ==
    /\ spans # <<>>
    /\ Len(spans[Len(spans)].attributes) < MaxSpanAttrs
    /\ \E key \in SetAttributeKeys, value \in SpanValues :
         spans' =
             [spans EXCEPT
                 ![Len(spans)].given =
                     Append(@, [key |-> key, value |-> value,
                                via |-> "set_attribute"]),
                 ![Len(spans)].attributes =
                     Append(@, set_attribute_key_value(key, value))]
    /\ trace_log' = Append(trace_log,
                           Event("set_attribute", Len(spans), NoResult))
    /\ UNCHANGED <<current_cx, frames, returned, outside_trace>>

TraceNext ==
    \/ WithSpanCreate
    \/ WithSpanAttach
    \/ WithSpanRun
    \/ WithSpanEnd
    \/ WithSpanDetach

SpanNext == CreateSpan \/ SetAttribute

\* ------------------------------------------- AttributeValue::from and Display

\* The decimal digit of a number below ten.
DigitChar(n) == CharAt("0123456789", n + 1)

\* s with zeros put in front of it up to the length n.
RECURSIVE PadZeros(_, _)
PadZeros(s, n) == IF Len(s) >= n THEN s ELSE PadZeros("0" \o s, n)

\* a - b - borrow for two digit texts of the same length with a >= b, digit
\* by digit from the right.
RECURSIVE SubDigits(_, _, _)
SubDigits(a, b, borrow) ==
    IF a = "" THEN ""
    ELSE LET d == DigitValue(CharAt(a, Len(a))) - DigitValue(CharAt(b, Len(b)))
                      - borrow
         IN  SubDigits(SubSeq(a, 1, Len(a) - 1), SubSeq(b, 1, Len(b) - 1),
                       IF d < 0 THEN 1 ELSE 0)
                 \o DigitChar(IF d < 0 THEN d + 10 ELSE d)

\* a - b for two decimal texts with a >= b >= 0.
DecimalSub(a, b) == StripZeros(SubDigits(a, PadZeros(b, Len(a)), 0))

\* 2^64 and the ends of the ranges of the native integer types.  usize has
\* the width of u64 (a 64-bit target).
TWO_POW_64 == "18446744073709551616"
U64_MAX == "18446744073709551615"
U32_MAX == "4294967295"
I32_MAX == "2147483647"
I32_MIN == "-2147483648"
I64_MIN == "-9223372036854775808"

\* `value as i64` for a 64-bit unsigned value: the same 64 bits read as two's
\* complement, so a value above i64::MAX comes out as value - 2^64.
u64_as_i64(value) ==
    IF DecimalLE(value, I64_MAX) THEN value
    ELSE "-" \o DecimalSub(TWO_POW_64, value)

\* `value as i64` for a 32-bit value: sign or zero extension keeps it.
widen_as_i64(value) == value

\* impl From<T> for AttributeValue, for the native integer types.
AttributeValue_from(type, value) ==
    CASE type = "i64" -> AV("Int", value)
      [] type = "usize" -> AV("Int", u64_as_i64(value))
      [] type = "i32" -> AV("Int", widen_as_i64(value))
      [] type = "u64" -> AV("Int", u64_as_i64(value))
      [] type = "u32" -> AV("Int", widen_as_i64(value))
      [] type = "u128" -> AV("Uint", value)

\* impl Display for AttributeValue: the payload written with "{}"; an
\* integer is written as its decimal text.  (The text of a Float is not
\* modelled.)
Display_fmt(value) ==
    CASE value.tag = "String" -> value.val
      [] value.tag = "Int" -> value.val
      [] value.tag = "Uint" -> value.val
      [] value.tag = "Bool" -> value.val

\* Values of each native integer type: the ends of its range, the values
\* around i64::MAX and some in between.
NativeIntegers ==
    [type : {"i32"}, value : {I32_MIN, "-1", "0", "1", "42", I32_MAX}]
    \cup [type : {"i64"}, value : {I64_MIN, I32_MIN, "-1", "0", "1", "42", I64_MAX}]
    \cup [type : {"u32"}, value : {"0", "1", "42", I32_MAX, "2147483648", U32_MAX}]
    \cup [type : {"u64", "usize"},
          value : {"0", "1", "42", U32_MAX, I64_MAX, I64_MIN_MAGNITUDE,
                   "12345678901234567890", U64_MAX}]
    \cup [type : {"u128"},
          value : {"0", "42", I64_MIN_MAGNITUDE, U64_MAX, TWO_POW_64, U128_MAX}]

ConvertIdle ==
    /\ native = [type |-> "i64", value |-> "0"]
    /\ from_value = AV("Int", "0")
    /\ displayed = ""
    /\ convert_pc = "idle"

\* A native integer about to be converted.
ConvertInit ==
    /\ native \in NativeIntegers
    /\ from_value = AV("Int", "0")
    /\ displayed = ""
    /\ convert_pc = "start"

\* AttributeValue::from(x)
From ==
    /\ convert_pc = "start"
    /\ from_value' = AttributeValue_from(native.type, native.value)
    /\ convert_pc' = "converted"
    /\ UNCHANGED <<native, displayed, outside_convert>>

\* value.to_string()
Display ==
    /\ convert_pc = "converted"
    /\ displayed' = Display_fmt(from_value)
    /\ convert_pc' = "displayed"
    /\ UNCHANGED <<native, from_value, outside_convert>>

ConvertNext == From \/ Display

\* ------------------------------------------------ TelemetryService::shutdown

\* TelemetryError: a variant and its message.
TelemetryError(variant, msg) == [variant |-> variant, msg |-> msg]

\* impl Display for TelemetryError
TelemetryError_fmt(e) ==
    CASE e.variant = "TracerInitError" -> "Tracer initialization error: " \o e.msg
      [] e.variant = "MetricsInitError" -> "Metrics initialization error: " \o e.msg
      [] e.variant = "LoggerInitError" -> "Logger initialization error: " \o e.msg
      [] e.variant = "ShutdownError" -> "Shutdown error: " \o e.msg

\* Result<(), TelemetryError>
OkUnit == [ok |-> TRUE, err |-> TelemetryError("", "")]
ErrOf(e) == [ok |-> FALSE, err |-> e]

Components == {"tracer", "metrics", "logger"}

\* What a port's shutdown can return.
ShutdownOutcomes ==
    {OkUnit, ErrOf(TelemetryError("ShutdownError", "timed out")),
     ErrOf(TelemetryError("LoggerInitError", "not started"))}

\* shutdown, lines 44, 48, 52: the text pushed for a failed component.
ShutdownErrorText(component, e) ==
    CASE component = "tracer" -> "Tracer shutdown error: " \o TelemetryError_fmt(e)
      [] component = "metrics" -> "Metrics shutdown error: " \o TelemetryError_fmt(e)
      [] component = "logger" -> "Logger shutdown error: " \o TelemetryError_fmt(e)

\* A shutdown that returns at the first failure, as `?` would.
AfterShutdown_ShortCircuit(component, errs) ==
    IF errs # <<>> THEN "return"
    ELSE CASE component = "tracer" -> "metrics"
           [] component = "metrics" -> "logger"
           [] component = "logger" -> "return"

\* shutdown, lines 43-53: where control goes after a component's shutdown:
\* to the next `if let`, whatever was collected.
AfterShutdown(component, errs) ==
    CASE component = "tracer" -> "metrics"
      [] component = "metrics" -> "logger"
      [] component = "logger" -> "return"

ServiceIdle ==
    /\ shutdown_outcomes = [c \in Components |-> OkUnit]
    /\ shutdown_calls = <<>>
    /\ errors = <<>>
    /\ shutdown_result = OkUnit
    /\ service_pc = "idle"

\* A TelemetryService whose three ports answer shutdown as
\* shutdown_outcomes says; line 41: let mut errors = Vec::new().
ServiceInit ==
    /\ shutdown_outcomes \in [Components -> ShutdownOutcomes]
    /\ shutdown_calls = <<>>
    /\ errors = <<>>
    /\ shutdown_result = OkUnit
    /\ service_pc = "tracer"

\* shutdown, lines 43-53: one `if let Err(e) = self.<port>.shutdown().await`.
ShutdownComponent(component) ==
    /\ service_pc = component
    /\ shutdown_calls' = Append(shutdown_calls, component)
    /\ errors' =
           IF shutdown_outcomes[component].ok THEN errors
           ELSE Append(errors,
                       ShutdownErrorText(component, shutdown_outcomes[component].err))
    /\ service_pc' = AfterShutdown(component, errors')
    /\ UNCHANGED <<shutdown_outcomes, shutdown_result, outside_service>>

ShutdownTracer == ShutdownComponent("tracer")

ShutdownMetrics == ShutdownComponent("metrics")

ShutdownLogger == ShutdownComponent("logger")

\* shutdown, lines 55-59
ShutdownReturn ==
    /\ service_pc = "return"
    /\ shutdown_result' =
           IF errors = <<>> THEN OkUnit
           ELSE ErrOf(TelemetryError("ShutdownError", join(errors, "; ")))
    /\ service_pc' = "done"
    /\ UNCHANGED <<shutdown_outcomes, shutdown_calls, errors, outside_service>>

ServiceNext ==
    \/ ShutdownTracer
    \/ ShutdownMetrics
    \/ ShutdownLogger
    \/ ShutdownReturn

\* ------------------------------------------------------- the facade's global

\* TELEMETRY_SERVICE.get() == None
NoService == 0

\* The threads that call facade::init, each with a TelemetryService of its
\* own (service i is the one handed over by caller i), and the threads that
\* call the other facade functions.
InitCallers == 1..MaxInitCalls
Users == 1..MaxUsers
ShutdownCallers == 1..MaxShutdownCalls

FacadeOps ==
    {"log", "create_span", "create_counter", "create_gauge", "create_histogram"}

\* A OnceLock whose set stores the value whatever the cell holds.
OnceLock_set_Overwriting(cell, value) == [ok |-> TRUE, cell |-> value]

\* OnceLock::set: the value is stored when the cell is empty; a full cell is
\* left as it is and the call fails.
OnceLock_set(cell, value) ==
    IF cell = NoService
    THEN [ok |-> TRUE, cell |-> value]
    ELSE [ok |-> FALSE, cell |-> cell]

\* TelemetryService::init, lines 32-34: the order the ports are initialized in.
InitOrder == <<"logger", "tracer", "metrics">>

\* The error a port's init returns when it fails.
InitError(component) ==
    CASE component = "logger" -> TelemetryError("LoggerInitError", "exporter")
      [] component = "tracer" -> TelemetryError("TracerInitError", "exporter")
      [] component = "metrics" -> TelemetryError("MetricsInitError", "exporter")

\* No call made yet: the value of init_result and of user_got.
NotReturned == [returned |-> FALSE]

FacadeIdle ==
    /\ TELEMETRY_SERVICE = NoService
    /\ init_pc = [i \in InitCallers |-> "idle"]
    /\ init_result = [i \in InitCallers |-> NotReturned]
    /\ component_inits = [i \in InitCallers |-> <<>>]
    /\ installs = <<>>
    /\ user_got = [u \in Users |-> NotReturned]
    /\ shutdown_got = [k \in ShutdownCallers |-> NotReturned]
    /\ component_shutdowns = [i \in InitCallers |-> 0]

\* A process in which nothing has called the facade yet.
FacadeInit ==
    /\ TELEMETRY_SERVICE = NoService
    /\ init_pc = [i \in InitCallers |-> "start"]
    /\ init_result = [i \in InitCallers |-> NotReturned]
    /\ component_inits = [i \in InitCallers |-> <<>>]
    /\ installs = <<>>
    /\ user_got = [u \in Users |-> NotReturned]
    /\ shutdown_got = [k \in ShutdownCallers |-> NotReturned]
    /\ component_shutdowns = [i \in InitCallers |-> 0]

\* facade::init, lines 28-34: the service is offered to the cell; the call
\* returns the error when the cell was full.
InitSet(i) ==
    /\ init_pc[i] = "start"
    /\ LET set == OnceLock_set(TELEMETRY_SERVICE, i)
       IN  /\ TELEMETRY_SERVICE' = set.cell
           /\ IF set.ok
              THEN /\ installs' = Append(installs, i)
                   /\ init_pc' = [init_pc EXCEPT ![i] = "logger"]
                   /\ UNCHANGED init_result
              ELSE /\ init_result' =
                          [init_result EXCEPT ![i] =
                              [returned |-> TRUE,
                               result |-> ErrOf(TelemetryError(
                                   "TracerInitError",
                                   "Telemetry service already initialized"))]]
                   /\ init_pc' = [init_pc EXCEPT ![i] = "done"]
                   /\ UNCHANGED installs
    /\ UNCHANGED <<component_inits, user_got, shutdown_got, component_shutdowns,
                   outside_facade>>

\* facade::init, line 36, inside TelemetryService::init: one port's
\* init().await?; a failure is returned at once, and the last success
\* returns Ok.
InitComponent(i, component) ==
    /\ init_pc[i] = component
    /\ component_inits' = [component_inits EXCEPT ![i] = Append(@, component)]
    /\ \E ok \in BOOLEAN :
         IF ok /\ component # "metrics"
         THEN /\ init_pc' = [init_pc EXCEPT ![i] =
                                 IF component = "logger" THEN "tracer" ELSE "metrics"]
              /\ UNCHANGED init_result
         ELSE /\ init_pc' = [init_pc EXCEPT ![i] = "done"]
              /\ init_result' =
                     [init_result EXCEPT ![i] =
                         [returned |-> TRUE,
                          result |-> IF ok THEN OkUnit
                                     ELSE ErrOf(InitError(component))]]
    /\ UNCHANGED <<TELEMETRY_SERVICE, installs, user_got, shutdown_got,
                   component_shutdowns, outside_facade>>

InitLogger == \E i \in InitCallers : InitComponent(i, "logger")

InitTracer == \E i \in InitCallers : InitComponent(i, "tracer")

InitMetrics == \E i \in InitCallers : InitComponent(i, "metrics")

FacadeInitCall == \E i \in InitCallers : InitSet(i)

\* facade::log, create_span, create_counter, create_gauge, create_histogram:
\* service() reads the cell and panics on an empty one; the call then
\* reaches the service it got, whose ports have been initialized so far as
\* component_inits says.
FacadeUse ==
    \E u \in Users, op \in FacadeOps :
        /\ ~user_got[u].returned
        /\ user_got' =
               [user_got EXCEPT ![u] =
                   IF TELEMETRY_SERVICE = NoService
                   THEN [returned |-> TRUE, op |-> op, panic |-> TRUE,
                         message |-> "Telemetry service not initialized",
                         service |-> NoService, initialized |-> <<>>]
                   ELSE [returned |-> TRUE, op |-> op, panic |-> FALSE,
                         message |-> "",
                         service |-> TELEMETRY_SERVICE,
                         initialized |-> component_inits[TELEMETRY_SERVICE]]]
        /\ UNCHANGED <<TELEMETRY_SERVICE, init_pc, init_result, component_inits,
                       installs, shutdown_got, component_shutdowns,
                       outside_facade>>

FacadeNext ==
    \/ FacadeInitCall
    \/ InitLogger
    \/ InitTracer
    \/ InitMetrics
    \/ FacadeUse

\* What the three ports of a service answer to one TelemetryService::shutdown.
TeardownOutcomes ==
    {[c \in Components |-> OkUnit],
     [c \in Components |->
         IF c = "tracer" THEN ErrOf(TelemetryError("ShutdownError", "timed out"))
         ELSE OkUnit]}

\* TelemetryService::shutdown as one call: the texts of the ports that
\* failed, in the order tracer, metrics, logger, joined in a ShutdownError.
service_shutdown(outcomes) ==
    LET text(c) == IF outcomes[c].ok THEN <<>>
                   ELSE <<ShutdownErrorText(c, outcomes[c].err)>>
        errs == text("tracer") \o text("metrics") \o text("logger")
    IN  IF errs = <<>> THEN OkUnit
        ELSE ErrOf(TelemetryError("ShutdownError", join(errs, "; ")))

\* A facade::shutdown that takes the service out of the cell.
CellAfterShutdown_Taken(cell) == NoService

\* facade::shutdown, line 49: TELEMETRY_SERVICE.get() borrows the service;
\* the cell keeps it.
CellAfterShutdown(cell) == cell

\* facade::shutdown(): Ok on an empty cell, else the result of the
\* installed service's shutdown.
FacadeShutdown ==
    \E k \in ShutdownCallers, outcomes \in TeardownOutcomes :
        /\ ~shutdown_got[k].returned
        /\ shutdown_got' =
               [shutdown_got EXCEPT ![k] =
                   [returned |-> TRUE,
                    service |-> TELEMETRY_SERVICE,
                    result |-> IF TELEMETRY_SERVICE = NoService THEN OkUnit
                               ELSE service_shutdown(outcomes)]]
        /\ component_shutdowns' =
               IF TELEMETRY_SERVICE = NoService THEN component_shutdowns
               ELSE [component_shutdowns EXCEPT ![TELEMETRY_SERVICE] = @ + 1]
        /\ TELEMETRY_SERVICE' = CellAfterShutdown(TELEMETRY_SERVICE)
        /\ UNCHANGED <<init_pc, init_result, component_inits, installs,
                       user_got, outside_facade>>

\* A process in which nothing has called the facade yet and one thread
\* is to call facade::init.
TeardownInit ==
    /\ TELEMETRY_SERVICE = NoService
    /\ init_pc = [i \in InitCallers |-> IF i = 1 THEN "start" ELSE "idle"]
    /\ init_result = [i \in InitCallers |-> NotReturned]
    /\ component_inits = [i \in InitCallers |-> <<>>]
    /\ installs = <<>>
    /\ user_got = [u \in Users |-> NotReturned]
    /\ shutdown_got = [k \in ShutdownCallers |-> NotReturned]
    /\ component_shutdowns = [i \in InitCallers |-> 0]

TeardownNext ==
    \/ FacadeInitCall
    \/ InitLogger
    \/ InitTracer
    \/ InitMetrics
    \/ FacadeUse
    \/ FacadeShutdown

\* ------------------------------------------------- DatadogMetrics: counters

\* std::env::var(name) returning Err: the variable is not set.
NotSet == "<not set>"

\* Option::None of MetricContext.description.
NoDescription == "<none>"

\* attributes.iter().any(|(k, _)| k == key)
HasKey(attrs, key) == \E i \in 1..Len(attrs) : attrs[i][1] = key

\* One `if !attributes.iter().any(..) { if let Ok(v) = std::env::var(..) {
\* attributes.push(..) } }` that pushes whenever the variable is set.
push_system_tag_Overriding(attrs, key, variable) ==
    IF variable # NotSet
    THEN Append(attrs, <<key, AV("String", variable)>>)
    ELSE attrs

\* One `if !attributes.iter().any(..) { if let Ok(v) = std::env::var(..) {
\* attributes.push(..) } }` of merge_with_system_tags.
push_system_tag(attrs, key, variable) ==
    IF ~HasKey(attrs, key) /\ variable # NotSet
    THEN Append(attrs, <<key, AV("String", variable)>>)
    ELSE attrs

\* merge_with_system_tags, in an environment that gives DD_ENV, DD_SERVICE
\* and DD_VERSION the values of env_vars.
merge_with_system_tags(attrs, env_vars) ==
    push_system_tag(
        push_system_tag(
            push_system_tag(attrs, "env", env_vars.DD_ENV),
            "service", env_vars.DD_SERVICE),
        "version", env_vars.DD_VERSION)

\* A replace that stops after the first match.
replace_FirstOnly(s, from, to) ==
    LET at == {i \in 1..Len(s) : SubSeq(s, i, i) = from}
    IN  IF at = {} THEN s
        ELSE LET first == CHOOSE i \in at : \A j \in at : i <= j
             IN  SubSeq(s, 1, first - 1) \o to \o SubSeq(s, first + 1, Len(s))

\* str::replace(from, to) for a one-character pattern.
RECURSIVE replace(_, _, _)
replace(s, from, to) ==
    IF s = "" THEN ""
    ELSE (IF Head(s) = from THEN to ELSE Head(s)) \o replace(Tail(s), from, to)

\* str::contains for a one-character pattern.
contains(s, c) == \E i \in 1..Len(s) : CharAt(s, i) = c

\* DatadogMetrics::format_metric_name (names are ASCII, on which
\* to_lowercase is to_ascii_lowercase).
format_metric_name(name) ==
    LET lowered == replace(to_ascii_lowercase(name), "_", ".")
    IN  IF ~contains(lowered, ".") THEN "custom." \o lowered ELSE lowered

\* DatadogMetrics::create_counter: the instrument's name, description and
\* unit, the meter it is built on and the DatadogCounter's fields.
create_counter(context, env_vars, provider) ==
    [instrument |-> format_metric_name(context.name),
     meter |-> IF provider THEN "counter_meter_provider" ELSE "global",
     description |-> context.description,
     unit |-> IF context.unit = NoUnit THEN "" ELSE as_str(context.unit),
     name |-> context.name,
     default_attributes |->
         ConvertAttributes(merge_with_system_tags(context.attributes, env_vars))]

MetricKeys == {"type", "env", "service", "version"}

MetricValues == {AV("String", "http"), AV("Int", "7")}

MetricContexts ==
    [name : {"request_count"},
     description : {NoDescription},
     unit : {NoUnit, Count},
     attributes : PairListsUpTo(MetricKeys, MetricValues, MaxMetricAttrs)]

Environments ==
    [DD_ENV : {NotSet, "prod"},
     DD_SERVICE : {NotSet, "api"},
     DD_VERSION : {NotSet, "1.2.3"}]

\* The DatadogCounter of a context that has not been handed over yet.
NoCounter ==
    [instrument |-> "", meter |-> "", description |-> NoDescription,
     unit |-> "", name |-> "", default_attributes |-> <<>>]

MetricsIdle ==
    /\ environment = [DD_ENV |-> NotSet, DD_SERVICE |-> NotSet, DD_VERSION |-> NotSet]
    /\ counter_meter_provider = FALSE
    /\ metric_context = [name |-> "", description |-> NoDescription,
                         unit |-> NoUnit, attributes |-> <<>>]
    /\ counter = NoCounter
    /\ metrics_pc = "idle"

\* A DatadogMetrics, its counter provider stored by init or not, in a
\* process environment, and a MetricContext to make a counter from.
MetricsInit ==
    /\ environment \in Environments
    /\ counter_meter_provider \in BOOLEAN
    /\ metric_context \in MetricContexts
    /\ counter = NoCounter
    /\ metrics_pc = "start"

\* DatadogMetrics::create_counter(context)
CreateCounter ==
    /\ metrics_pc = "start"
    /\ counter' = create_counter(metric_context, environment, counter_meter_provider)
    /\ metrics_pc' = "created"
    /\ UNCHANGED <<environment, counter_meter_provider, metric_context,
                   outside_metrics>>

MetricsNext == CreateCounter

\* ------------------------------------------ DatadogLogger: init and shutdown

\* The largest number of DatadogLoggers of the process.
MaxLoggers == 2

\* The largest number of init and shutdown calls.
MaxLifecycleCalls == 3

\* Option::None of logger_provider.
NoProvider == 0

\* Option::None of the filter argument.
NoFilter == "<none>"

\* No global default subscriber has been set.
NoSubscriber == [filter |-> "", provider |-> NoProvider]

\* A call that unwound with a panic.
InitPanic == [ok |-> FALSE, err |-> TelemetryError("<panic>", "SetGlobalDefaultError")]

Loggers == 1..MaxLoggers

Filters == {NoFilter, "debug"}

\* filter.unwrap_or_else: the default directives, or the caller's filter.
filter_otel(filter) ==
    IF filter = NoFilter
    THEN "info,opentelemetry=info,hyper=off,tonic=off,h2=off,reqwest=off"
    ELSE filter

\* SubscriberInitExt::init: try_init().expect(..), where try_init sets the
\* global default and fails when one is set.
subscriber_init(global, subscriber) ==
    IF global = NoSubscriber
    THEN [global |-> subscriber, panicked |-> FALSE]
    ELSE [global |-> global, panicked |-> TRUE]

LifecycleCall(logger, op, filter, initialized, outcome, result) ==
    [logger |-> logger, op |-> op, filter |-> filter,
     initialized |-> initialized, outcome |-> outcome, result |-> result]

LifecycleIdle ==
    /\ global_default = NoSubscriber
    /\ logger_provider = <<>>
    /\ sdk_providers = <<>>
    /\ lifecycle_calls = <<>>

\* DatadogLogger::new for every logger, in a process without subscriber.
LifecycleInit ==
    /\ global_default = NoSubscriber
    /\ logger_provider = [l \in Loggers |-> NoProvider]
    /\ sdk_providers = <<>>
    /\ lifecycle_calls = <<>>

\* DatadogLogger::init(filter): the exporter is built or not (`exporter`);
\* the provider is built; the subscriber is installed, or the call panics
\* and drops the provider; the provider is stored.
LoggerInit(l, filter, exporter) ==
    LET built == Len(sdk_providers) + 1
        installed == subscriber_init(global_default,
                                     [filter |-> filter_otel(filter),
                                      provider |-> built])
        result == IF exporter = "Err"
                  THEN ErrOf(TelemetryError("LoggerInitError", "exporter"))
                  ELSE IF installed.panicked THEN InitPanic
                  ELSE OkUnit
    IN  /\ Len(lifecycle_calls) < MaxLifecycleCalls
        /\ lifecycle_calls' =
               Append(lifecycle_calls,
                      LifecycleCall(l, "init", filter,
                                    logger_provider[l] # NoProvider,
                                    exporter, result))
        /\ IF exporter = "Err"
           THEN UNCHANGED <<global_default, logger_provider, sdk_providers>>
           ELSE /\ global_default' = installed.global
                /\ sdk_providers' =
                       Append(sdk_providers,
                              [dropped |-> installed.panicked,
                               shutdown_calls |-> 0])
                /\ logger_provider' =
                       IF installed.panicked THEN logger_provider
                       ELSE [logger_provider EXCEPT ![l] = built]
        /\ UNCHANGED outside_lifecycle

\* DatadogLogger::shutdown(): the slot is emptied and its provider, if
\* any, shut down, which succeeds or not (`outcome`).
LoggerShutdown(l, outcome) ==
    LET stored == logger_provider[l]
        result == IF stored # NoProvider /\ outcome = "Err"
                  THEN ErrOf(TelemetryError("ShutdownError", "provider"))
                  ELSE OkUnit
    IN  /\ Len(lifecycle_calls) < MaxLifecycleCalls
        /\ lifecycle_calls' =
               Append(lifecycle_calls,
                      LifecycleCall(l, "shutdown", NoFilter,
                                    stored # NoProvider, outcome, result))
        /\ logger_provider' = [logger_provider EXCEPT ![l] = NoProvider]
        /\ sdk_providers' =
               IF stored = NoProvider THEN sdk_providers
               ELSE [sdk_providers EXCEPT
                        ![stored].shutdown_calls = @ + 1]
        /\ UNCHANGED <<global_default, outside_lifecycle>>

LifecycleNext ==
    \/ \E l \in Loggers, filter \in Filters, exporter \in {"Ok", "Err"} :
           LoggerInit(l, filter, exporter)
    \/ \E l \in Loggers, outcome \in {"Ok", "Err"} : LoggerShutdown(l, outcome)

\* ---------------------------------------------------- TelemetryService::init

\* What a port's init can return: Ok, or an error of any variant.
InitOutcomes ==
    {OkUnit,
     ErrOf(TelemetryError("LoggerInitError", "exporter")),
     ErrOf(TelemetryError("TracerInitError", "endpoint")),
     ErrOf(TelemetryError("MetricsInitError", "exporter"))}

\* An init that goes on to the next port whatever the port returned.
AfterInit_Continue(component, result) ==
    CASE component = "logger" -> "tracer"
      [] component = "tracer" -> "metrics"
      [] component = "metrics" -> "return"

\* init, lines 32-34: where control goes after `self.<port>.init().await?`:
\* out of the function on Err, else to the next statement.
AfterInit(component, result) ==
    IF ~result.ok THEN "return"
    ELSE CASE component = "logger" -> "tracer"
           [] component = "tracer" -> "metrics"
           [] component = "metrics" -> "return"

\* The value of `result?` when it returns from the function: the error,
\* converted by From<TelemetryError> for TelemetryError.
Try(result) == ErrOf(result.err)

StartupIdle ==
    /\ init_outcomes = [c \in Components |-> OkUnit]
    /\ init_calls = <<>>
    /\ startup_result = OkUnit
    /\ startup_pc = "idle"

\* A TelemetryService whose three ports answer init as init_outcomes says.
StartupInit ==
    /\ init_outcomes \in [Components -> InitOutcomes]
    /\ init_calls = <<>>
    /\ startup_result = OkUnit
    /\ startup_pc = "logger"

\* init, lines 32-36: one `self.<port>.init().await?`, and the Ok(()) of
\* line 36 after the last.
InitPort(component) ==
    /\ startup_pc = component
    /\ init_calls' = Append(init_calls, component)
    /\ IF AfterInit(component, init_outcomes[component]) = "return"
       THEN /\ startup_pc' = "done"
            /\ startup_result' =
                   IF init_outcomes[component].ok THEN OkUnit
                   ELSE Try(init_outcomes[component])
       ELSE /\ startup_pc' = AfterInit(component, init_outcomes[component])
            /\ UNCHANGED startup_result
    /\ UNCHANGED <<init_outcomes, outside_startup>>

InitPortLogger == InitPort("logger")

InitPortTracer == InitPort("tracer")

InitPortMetrics == InitPort("metrics")

StartupNext ==
    \/ InitPortLogger
    \/ InitPortTracer
    \/ InitPortMetrics

\* ---------------------------------------- DatadogMetrics: init and shutdown

\* The largest number of init and shutdown calls on a DatadogMetrics.
MaxMeterCalls == 3

\* The three slots, in the order shutdown visits them.
MeterOrder == <<"counter", "gauge", "histogram">>

MeterKinds == {"counter", "gauge", "histogram"}

\* A `?` that never returns from the function.
ReturnsEarly_Never(outcome) == FALSE

\* provider.shutdown().map_err(..)?: the function returns on Err.
ReturnsEarly(outcome) == outcome = "Err"

\* shutdown, lines 259-278, from the n-th `if let Some(provider) =
\* provider.take()` on: the slots, the providers shut down and the result.
RECURSIVE meters_shutdown(_, _, _, _)
meters_shutdown(n, slots, shut, outcomes) ==
    IF n > Len(MeterOrder)
    THEN [slots |-> slots, shut |-> shut, result |-> OkUnit]
    ELSE LET kind == MeterOrder[n]
         IN  IF slots[kind] = NoProvider
             THEN meters_shutdown(n + 1, slots, shut, outcomes)
             ELSE IF ReturnsEarly(outcomes[kind])
             THEN [slots |-> [slots EXCEPT ![kind] = NoProvider],
                   shut |-> Append(shut, slots[kind]),
                   result |-> ErrOf(TelemetryError("ShutdownError", "timed out"))]
             ELSE meters_shutdown(n + 1, [slots EXCEPT ![kind] = NoProvider],
                                  Append(shut, slots[kind]), outcomes)

\* The number of times p occurs in seq.
Occurrences(seq, p) == Cardinality({i \in 1..Len(seq) : seq[i] = p})

MetersIdle ==
    /\ meter_slots = <<>>
    /\ sdk_meter_providers = <<>>
    /\ global_meter_provider = NoProvider
    /\ meter_calls = <<>>

\* DatadogMetrics::new()
MetersInit ==
    /\ meter_slots = [k \in MeterKinds |-> NoProvider]
    /\ sdk_meter_providers = <<>>
    /\ global_meter_provider = NoProvider
    /\ meter_calls = <<>>

\* DatadogMetrics::init(): the three exporters and providers are built,
\* the first exporter that cannot be built (`failing`, 0 for none) ending
\* the call; then the three slots and the global provider are set.
MetricsInitCall(failing) ==
    LET built == Len(sdk_meter_providers)
        stored == [k \in MeterKinds |->
                      CASE k = "counter" -> built + 1
                        [] k = "gauge" -> built + 2
                        [] k = "histogram" -> built + 3]
    IN  /\ Len(meter_calls) < MaxMeterCalls
        /\ IF failing # 0
           THEN /\ meter_calls' =
                       Append(meter_calls,
                              [op |-> "init", before |-> meter_slots,
                               after |-> meter_slots, shut |-> <<>>,
                               outcomes |-> failing,
                               result |-> ErrOf(TelemetryError(
                                   "MetricsInitError", "exporter"))])
                /\ UNCHANGED <<meter_slots, sdk_meter_providers,
                               global_meter_provider>>
           ELSE /\ meter_slots' = stored
                /\ sdk_meter_providers' = sdk_meter_providers \o <<0, 0, 0>>
                /\ global_meter_provider' = built + 1
                /\ meter_calls' =
                       Append(meter_calls,
                              [op |-> "init", before |-> meter_slots,
                               after |-> stored, shut |-> <<>>,
                               outcomes |-> failing, result |-> OkUnit])
        /\ UNCHANGED outside_meters

\* DatadogMetrics::shutdown(), the providers' shutdowns answering as
\* `outcomes` says.
MetricsShutdownCall(outcomes) ==
    LET done == meters_shutdown(1, meter_slots, <<>>, outcomes)
    IN  /\ Len(meter_calls) < MaxMeterCalls
        /\ meter_slots' = done.slots
        /\ sdk_meter_providers' =
               [p \in DOMAIN sdk_meter_providers |->
                   sdk_meter_providers[p] + Occurrences(done.shut, p)]
        /\ meter_calls' =
               Append(meter_calls,
                      [op |-> "shutdown", before |-> meter_slots,
                       after |-> done.slots, shut |-> done.shut,
                       outcomes |-> outcomes, result |-> done.result])
        /\ UNCHANGED <<global_meter_provider, outside_meters>>

MetersNext ==
    \/ \E failing \in 0..3 : MetricsInitCall(failing)
    \/ \E outcomes \in [MeterKinds -> {"Ok", "Err"}] : MetricsShutdownCall(outcomes)

\* -------------------------------------- DatadogCounter, Gauge and Histogram

\* The largest number of add, set and record calls.
MaxRecordings == 2

\* The largest number of attributes handed to one such call.
MaxCallAttrs == 2

\* DatadogMetrics::convert_attributes
convert_attributes(attrs) ==
    [i \in 1..Len(attrs) |-> to_key_value(attrs[i][1], attrs[i][2])]

\* An add that extends the instrument's own default_attributes.
combined_attributes_InPlace(defaults, call_attrs) ==
    [combined |-> defaults \o convert_attributes(call_attrs),
     defaults |-> defaults \o convert_attributes(call_attrs)]

\* add, set and record: a clone of default_attributes extended by the
\* converted attributes of the call; the field itself is only read.
combined_attributes(defaults, call_attrs) ==
    [combined |-> defaults \o convert_attributes(call_attrs),
     defaults |-> defaults]

\* The default attributes an instrument can be created with.
DefaultAttributes ==
    {<<>>,
     convert_attributes(<< <<"type", AV("String", "http")>>,
                           <<"env", AV("String", "prod")>> >>)}

CallKeys == {"type", "path"}

CallValues == {AV("String", "http"), AV("Int", "7")}

CallAttributes == PairListsUpTo(CallKeys, CallValues, MaxCallAttrs)

\* The values recorded: a u64 for a counter, an f64 for the others.
RecordedValues == {"1", "250"}

NoRecording == [kind |-> "", value |-> "", given |-> <<>>, attributes |-> <<>>]

InstrumentsIdle ==
    /\ created_with = <<>>
    /\ default_attributes = <<>>
    /\ last_recording = NoRecording
    /\ recordings = 0

\* A counter, a gauge and a histogram as create_counter, create_gauge and
\* create_histogram return them.
InstrumentsInit ==
    /\ created_with \in [MeterKinds -> DefaultAttributes]
    /\ default_attributes = created_with
    /\ last_recording = NoRecording
    /\ recordings = 0

\* One call on the instrument of a kind: what it hands to the SDK
\* instrument.
Record(kind, value, call_attrs) ==
    LET done == combined_attributes(default_attributes[kind], call_attrs)
    IN  /\ recordings < MaxRecordings
        /\ recordings' = recordings + 1
        /\ last_recording' =
               [kind |-> kind, value |-> value, given |-> call_attrs,
                attributes |-> done.combined]
        /\ default_attributes' = [default_attributes EXCEPT ![kind] = done.defaults]
        /\ UNCHANGED <<created_with, outside_instruments>>

\* DatadogCounter::add(value, attributes)
CounterAdd ==
    \E value \in RecordedValues, call_attrs \in CallAttributes :
        Record("counter", value, call_attrs)

\* DatadogGauge::set(value, attributes)
GaugeSet ==
    \E value \in RecordedValues, call_attrs \in CallAttributes :
        Record("gauge", value, call_attrs)

\* DatadogHistogram::record(value, attributes)
HistogramRecord ==
    \E value \in RecordedValues, call_attrs \in CallAttributes :
        Record("histogram", value, call_attrs)

InstrumentsNext ==
    \/ CounterAdd
    \/ GaugeSet
    \/ HistogramRecord

\* ------------------------------------------ DatadogMetrics: metric names

\* The longest name built from NameAlphabet.
MaxNameLen == 3

NameAlphabet == {"A", "b", "_", "."}

\* Every name of up to MaxNameLen characters of NameAlphabet, and names of
\* the kinds callers use.
MetricNames ==
    TextsUpTo(NameAlphabet, MaxNameLen)
        \cup {"request_count", "HTTP_Requests_Total", "custom.latency", "Latency"}

NamesIdle ==
    /\ metric_name = ""
    /\ formatted = ""
    /\ reformatted = ""
    /\ name_pc = "idle"

NamesInit ==
    /\ metric_name \in MetricNames
    /\ formatted = ""
    /\ reformatted = ""
    /\ name_pc = "start"

\* format_metric_name(name)
FormatName ==
    /\ name_pc = "start"
    /\ formatted' = format_metric_name(metric_name)
    /\ name_pc' = "formatted"
    /\ UNCHANGED <<metric_name, reformatted, outside_names>>

\* format_metric_name of the name it returned.
FormatAgain ==
    /\ name_pc = "formatted"
    /\ reformatted' = format_metric_name(formatted)
    /\ name_pc' = "reformatted"
    /\ UNCHANGED <<metric_name, formatted, outside_names>>

NamesNext == FormatName \/ FormatAgain

\* ----------------------------------------- DatadogLogger::extract_stack_trace

\* The largest number of errors of a source chain.
MaxChainLen == 3

\* Option::None of current_error and of Error::source().
NoError == 0

ErrorTexts == {"Main error", "Nested error cause", "timed out"}

\* Error::source() of the n-th error of a chain of `texts`: the next one,
\* None for the last.
source(texts, n) == IF n < Len(texts) THEN n + 1 ELSE NoError

\* A push that puts the text in front of the vector.
error_chain_push_Front(chain, text) == <<text>> \o chain

\* error_chain.push(err.to_string())
error_chain_push(chain, text) == Append(chain, text)

StackIdle ==
    /\ error_texts = <<>>
    /\ current_error = NoError
    /\ error_chain = <<>>
    /\ stack_trace = ""
    /\ stack_pc = "idle"

\* extract_stack_trace(error), lines 68-69, for an error whose source
\* chain is finite: error_texts[1] is the error's text, error_texts[n + 1]
\* the text of the source of the n-th.
StackInit ==
    /\ error_texts \in UNION {[1..n -> ErrorTexts] : n \in 1..MaxChainLen}
    /\ current_error = 1
    /\ error_chain = <<>>
    /\ stack_trace = ""
    /\ stack_pc = "loop"

\* One turn of `while let Some(err) = current_error`, lines 71-74.
LoopTurn ==
    /\ stack_pc = "loop"
    /\ current_error # NoError
    /\ error_chain' = error_chain_push(error_chain, error_texts[current_error])
    /\ current_error' = source(error_texts, current_error)
    /\ UNCHANGED <<error_texts, stack_trace, stack_pc, outside_stack>>

\* The loop's exit and line 77.
LoopExit ==
    /\ stack_pc = "loop"
    /\ current_error = NoError
    /\ stack_trace' = join(error_chain, "\n    caused by: ")
    /\ stack_pc' = "returned"
    /\ UNCHANGED <<error_texts, current_error, error_chain, outside_stack>>

StackNext == LoopTurn \/ LoopExit

\* ----------------------------------------------------------- specifications

\* The mapper called on every map of up to MaxAttrs entries.
InitMapper ==
    MapperInit /\ ParseIdle /\ UnitIdle /\ LogIdle /\ TraceIdle
    /\ ConvertIdle /\ ServiceIdle /\ FacadeIdle /\ MetricsIdle
    /\ LifecycleIdle /\ StartupIdle /\ MetersIdle /\ InstrumentsIdle
    /\ NamesIdle /\ StackIdle
SpecMapper == InitMapper /\ [][MapperNext]_vars

\* parse called on every text of ParseTexts.
InitParse ==
    ParseInit /\ MapperIdle /\ UnitIdle /\ LogIdle /\ TraceIdle
    /\ ConvertIdle /\ ServiceIdle /\ FacadeIdle /\ MetricsIdle
    /\ LifecycleIdle /\ StartupIdle /\ MetersIdle /\ InstrumentsIdle
    /\ NamesIdle /\ StackIdle
SpecParse == InitParse /\ [][ParseNext]_vars

\* Every unit coded and decoded, and foreign texts decoded.
InitUnits ==
    UnitInit /\ MapperIdle /\ ParseIdle /\ LogIdle /\ TraceIdle
    /\ ConvertIdle /\ ServiceIdle /\ FacadeIdle /\ MetricsIdle
    /\ LifecycleIdle /\ StartupIdle /\ MetersIdle /\ InstrumentsIdle
    /\ NamesIdle /\ StackIdle
SpecUnits == InitUnits /\ [][UnitNext]_vars

\* log called once on every LogContext of LogContexts.
InitLog ==
    LogInit /\ MapperIdle /\ ParseIdle /\ UnitIdle /\ TraceIdle
    /\ ConvertIdle /\ ServiceIdle /\ FacadeIdle /\ MetricsIdle
    /\ LifecycleIdle /\ StartupIdle /\ MetersIdle /\ InstrumentsIdle
    /\ NamesIdle /\ StackIdle
SpecLog == InitLog /\ [][LogNext]_vars

\* with_span calls made by one thread, nested and in sequence.
InitTrace ==
    TraceInit /\ MapperIdle /\ ParseIdle /\ UnitIdle /\ LogIdle
    /\ ConvertIdle /\ ServiceIdle /\ FacadeIdle /\ MetricsIdle
    /\ LifecycleIdle /\ StartupIdle /\ MetersIdle /\ InstrumentsIdle
    /\ NamesIdle /\ StackIdle
SpecTrace == InitTrace /\ [][TraceNext]_vars

\* Spans created with attributes and given more with set_attribute.
InitSpans ==
    TraceInit /\ MapperIdle /\ ParseIdle /\ UnitIdle /\ LogIdle
    /\ ConvertIdle /\ ServiceIdle /\ FacadeIdle /\ MetricsIdle
    /\ LifecycleIdle /\ StartupIdle /\ MetersIdle /\ InstrumentsIdle
    /\ NamesIdle /\ StackIdle
SpecSpans == InitSpans /\ [][SpanNext]_vars

\* AttributeValue::from and Display applied to every integer of NativeIntegers.
InitConvert ==
    ConvertInit /\ MapperIdle /\ ParseIdle /\ UnitIdle /\ LogIdle
    /\ TraceIdle /\ ServiceIdle /\ FacadeIdle /\ MetricsIdle
    /\ LifecycleIdle /\ StartupIdle /\ MetersIdle /\ InstrumentsIdle
    /\ NamesIdle /\ StackIdle
SpecConvert == InitConvert /\ [][ConvertNext]_vars

\* shutdown run on a service for every combination of port outcomes.
InitService ==
    ServiceInit /\ MapperIdle /\ ParseIdle /\ UnitIdle /\ LogIdle
    /\ TraceIdle /\ ConvertIdle /\ FacadeIdle /\ MetricsIdle
    /\ LifecycleIdle /\ StartupIdle /\ MetersIdle /\ InstrumentsIdle
    /\ NamesIdle /\ StackIdle
SpecService == InitService /\ [][ServiceNext]_vars

\* facade::init called by MaxInitCalls threads while MaxUsers threads use the
\* facade, in every interleaving.
InitFacade ==
    FacadeInit /\ MapperIdle /\ ParseIdle /\ UnitIdle /\ LogIdle
    /\ TraceIdle /\ ConvertIdle /\ ServiceIdle /\ MetricsIdle
    /\ LifecycleIdle /\ StartupIdle /\ MetersIdle /\ InstrumentsIdle
    /\ NamesIdle /\ StackIdle
SpecFacade == InitFacade /\ [][FacadeNext]_vars

\* One facade::init, MaxUsers threads that use the facade and
\* MaxShutdownCalls threads that call facade::shutdown, in every interleaving.
InitTeardown ==
    TeardownInit /\ MapperIdle /\ ParseIdle /\ UnitIdle /\ LogIdle
    /\ TraceIdle /\ ConvertIdle /\ ServiceIdle /\ MetricsIdle
    /\ LifecycleIdle /\ StartupIdle /\ MetersIdle /\ InstrumentsIdle
    /\ NamesIdle /\ StackIdle
SpecTeardown == InitTeardown /\ [][TeardownNext]_vars

\* create_counter called on every MetricContext of MetricContexts in every
\* environment of Environments.
InitCounters ==
    MetricsInit /\ MapperIdle /\ ParseIdle /\ UnitIdle /\ LogIdle
    /\ TraceIdle /\ ConvertIdle /\ ServiceIdle /\ FacadeIdle
    /\ LifecycleIdle /\ StartupIdle /\ MetersIdle /\ InstrumentsIdle
    /\ NamesIdle /\ StackIdle
SpecMetrics == InitCounters /\ [][MetricsNext]_vars

\* init and shutdown called on the loggers of a process, in any order.
InitLifecycle ==
    LifecycleInit /\ MapperIdle /\ ParseIdle /\ UnitIdle /\ LogIdle
    /\ TraceIdle /\ ConvertIdle /\ ServiceIdle /\ FacadeIdle
    /\ MetricsIdle /\ StartupIdle /\ MetersIdle /\ InstrumentsIdle
    /\ NamesIdle /\ StackIdle
SpecLifecycle == InitLifecycle /\ [][LifecycleNext]_vars

\* TelemetryService::init on a service whose ports fail or not in every way.
InitStartup ==
    StartupInit /\ MapperIdle /\ ParseIdle /\ UnitIdle /\ LogIdle
    /\ TraceIdle /\ ConvertIdle /\ ServiceIdle /\ FacadeIdle
    /\ MetricsIdle /\ LifecycleIdle /\ MetersIdle /\ InstrumentsIdle
    /\ NamesIdle /\ StackIdle
SpecStartup == InitStartup /\ [][StartupNext]_vars

\* init and shutdown called on a DatadogMetrics, in any order.
InitMeters ==
    MetersInit /\ MapperIdle /\ ParseIdle /\ UnitIdle /\ LogIdle
    /\ TraceIdle /\ ConvertIdle /\ ServiceIdle /\ FacadeIdle
    /\ MetricsIdle /\ LifecycleIdle /\ StartupIdle /\ InstrumentsIdle
    /\ NamesIdle /\ StackIdle
SpecMeters == InitMeters /\ [][MetersNext]_vars

\* add, set and record called on a counter, a gauge and a histogram.
InitInstruments ==
    InstrumentsInit /\ MapperIdle /\ ParseIdle /\ UnitIdle /\ LogIdle
    /\ TraceIdle /\ ConvertIdle /\ ServiceIdle /\ FacadeIdle
    /\ MetricsIdle /\ LifecycleIdle /\ StartupIdle /\ MetersIdle
    /\ NamesIdle /\ StackIdle
SpecInstruments == InitInstruments /\ [][InstrumentsNext]_vars

\* format_metric_name applied to every name of MetricNames, and again to
\* its result.
InitNames ==
    NamesInit /\ MapperIdle /\ ParseIdle /\ UnitIdle /\ LogIdle
    /\ TraceIdle /\ ConvertIdle /\ ServiceIdle /\ FacadeIdle
    /\ MetricsIdle /\ LifecycleIdle /\ StartupIdle /\ MetersIdle
    /\ InstrumentsIdle /\ StackIdle
SpecNames == InitNames /\ [][NamesNext]_vars

\* extract_stack_trace run on every chain of up to MaxChainLen errors; the
\* function is straight-line code around one loop, so a step that can be
\* taken is taken.
InitStack ==
    StackInit /\ MapperIdle /\ ParseIdle /\ UnitIdle /\ LogIdle /\ TraceIdle
    /\ ConvertIdle /\ ServiceIdle /\ FacadeIdle /\ MetricsIdle /\ LifecycleIdle
    /\ StartupIdle /\ MetersIdle /\ InstrumentsIdle /\ NamesIdle
SpecStack == InitStack /\ [][StackNext]_vars /\ WF_vars(StackNext)

\* ---------------------------------------------------- mapper: the claims

\* C1: the mapper produces exactly one output entry per input key: the output
\* has as many entries as the input and every input value is found under the
\* key its entry was mapped to.
C1_OneEntryPerInputKey ==
    mapper_pc = "mapped" =>
        /\ Cardinality(DOMAIN datadog_attributes) = Cardinality(DOMAIN attributes)
        /\ \A k \in DOMAIN attributes :
              \E o \in DOMAIN datadog_attributes : datadog_attributes[o] = attributes[k]

\* The remap table as the specification words it: alias |-> canonical key.
C2_Aliases ==
    [user |-> "usr.id", user_id |-> "usr.id",
     duration |-> "duration", latency |-> "duration", exec_time |-> "duration",
     time_elapsed |-> "duration",
     ip |-> "network.client.ip", client_ip |-> "network.client.ip",
     remote_addr |-> "network.client.ip", remote_ip |-> "network.client.ip"]

C2_Kept(key) ==
    \/ key \in {"service", "host", "source", "trace_id"}
    \/ \E n \in {"network", "http", "logger", "error", "usr", "db", "syslog", "dns", "evt"} :
          /\ Len(key) > Len(n)
          /\ SubSeq(key, 1, Len(n) + 1) = n \o "."

C2_OutputKey(key) ==
    IF ~C2_Kept(key) /\ key \in DOMAIN C2_Aliases THEN C2_Aliases[key] ELSE key

C3_Idempotent ==
    /\ mapper_pc = "remapped" => remapped_attributes = datadog_attributes
    /\ mapper_pc # "start" => \A k \in DOMAIN datadog_attributes : DatadogKey(k) = k

\* A set with an alias and a custom key was mapped and mapped again.
C3_Witness ==
    /\ mapper_pc = "remapped"
    /\ DOMAIN attributes = {"client_ip", "custom_attr"}
    /\ DOMAIN remapped_attributes = {"network.client.ip", "custom_attr"}

\* C4: two runs of the mapper on equal input maps return equal maps,
\* whatever order the entries are visited in.
C4_SameInputSameOutput ==
    mapper_pc = "again" => second_attributes = datadog_attributes

\* ----------------------------------------------------- parse: the claims

C5_Examples ==
    /\ parse_text = "5" => parsed = AV("Uint", "5")
    /\ parse_text = "-5" => parsed = AV("Int", "-5")
    /\ parse_text = "3.14" => parsed.tag = "Float"
    /\ parse_text = "true" => parsed = AV("Bool", "true")
    /\ parse_text = "false" => parsed = AV("Bool", "false")
    /\ parse_text = "hello" => parsed = AV("String", "hello")

\* A decimal integer text: digits only.
C5_NonNegativeIntegerText(s) == s # "" /\ AllDigits(s)

\* A negative integer text: '-' and digits.
C5_NegativeIntegerText(s) == Len(s) > 1 /\ Head(s) = "-" /\ AllDigits(Tail(s))

\* C5 as claimed: every non-negative decimal integer text yields Uint, every
\* negative integer text yields Int, "3.14" Float, "true"/"false" Bool and
\* "hello" String.
C5_AsClaimed ==
    parse_pc = "parsed" =>
        /\ C5_NonNegativeIntegerText(parse_text) => parsed.tag = "Uint"
        /\ C5_NegativeIntegerText(parse_text) => parsed.tag = "Int"
        /\ C5_Examples

\* C5 (amended): a non-negative decimal integer text of value at most
\* 2^128 - 1 yields Uint of that value, a negative integer text of value at
\* least -2^63 yields Int of that value, an integer text outside these
\* ranges yields Float; "3.14" yields Float, "true"/"false" Bool, and a text
\* that is no number and no boolean yields String with the text itself.
C5_ParseOrder ==
    parse_pc = "parsed" =>
        /\ C5_NonNegativeIntegerText(parse_text) =>
              IF DecimalLE(StripZeros(parse_text), U128_MAX)
              THEN parsed = AV("Uint", StripZeros(parse_text))
              ELSE parsed = AV("Float", parse_text)
        /\ C5_NegativeIntegerText(parse_text) =>
              IF DecimalLE(StripZeros(Tail(parse_text)), I64_MIN_MAGNITUDE)
              THEN /\ parsed.tag = "Int"
                   /\ parsed.val \in {"-" \o StripZeros(Tail(parse_text)), "0"}
              ELSE parsed = AV("Float", parse_text)
        /\ C5_Examples
        /\ parsed.tag = "String" => parsed.val = parse_text
        /\ parse_text \in {"", "hello", "x", "-", "+", ".", "e5", "1e", "5x", "0x10", " 5", "True"}
              => parsed.tag = "String"

\* The integer text u128::MAX + 1 was parsed, to Float.
C5_Witness ==
    /\ parse_pc = "parsed"
    /\ parse_text = "340282366920938463463374607431768211456"
    /\ parsed.tag = "Float"

\* C6: parse returns an AttributeValue for every text, the empty text and
\* integer texts outside the i64 and u128 ranges included; it never panics.
C6_ParseTotal ==
    parse_pc = "parsed" => parsed.tag \in AttributeTags

\* An integer text below i64::MIN was parsed and a value came back.
C6_Witness ==
    /\ parse_pc = "parsed"
    /\ parse_text = "-9223372036854775809"
    /\ parsed = AV("Float", "-9223372036854775809")

\* ------------------------------------------------------ units: the claims

\* C7: for every MetricUnit v, from_str(v.as_str()) returns v.
C7_RoundTrip ==
    (unit_in # NoUnit /\ unit_pc \in {"decoded", "panicked"}) =>
        /\ ~unit_out.panic
        /\ unit_out.unit = unit_in

\* C8: from_str on a text that is the code of no unit returns a recoverable
\* UnknownUnit error to its caller and does not panic.
C8_UnknownUnitIsAnError ==
    (/\ unit_pc \in {"decoded", "panicked"}
     /\ \A m \in MetricUnits : as_str(m) # unit_code) =>
        /\ ~unit_out.panic
        /\ unit_pc = "decoded"
        /\ unit_out.unit = NoUnit

\* C9: within each category the codes are a bijection: no two variants of
\* the category of a unit share its code, and from_str maps the code back
\* to a variant of that category.
C9_BijectiveWithinCategory ==
    (unit_in # NoUnit /\ unit_pc \in {"decoded", "panicked"}) =>
        /\ unit_code = as_str(unit_in)
        /\ \A m \in MetricUnits :
              (m.category = unit_in.category /\ m # unit_in) => as_str(m) # unit_code
        /\ ~unit_out.panic
        /\ unit_out.unit.category = unit_in.category

\* ----------------------------------------------------- logger: the claims

\* The lower-case level names of the claim.
C10_LevelName ==
    [Trace |-> "trace", Debug |-> "debug", Info |-> "info", Warn |-> "warn",
     Error |-> "error", Critical |-> "critical"]

C10_Expected(key, default) ==
    IF key \in DOMAIN log_context.attributes
    THEN log_context.attributes[key]
    ELSE AV("String", default)

\* C10: the set log hands to the mapper and the mapped set both hold status
\* and service: the caller's value when the context has one, else the
\* lower-case level name and the configured service name.
C10_StatusAndService ==
    log_pc = "logged" =>
        \A m \in {prepared_attributes, logged_attributes} :
            /\ {"status", "service"} \subseteq DOMAIN m
            /\ m["status"] = C10_Expected("status", C10_LevelName[log_context.level])
            /\ m["service"] = C10_Expected("service", service_name)

\* A Critical context without status and service was logged beside one
\* whose caller set the status.
C10_Witness ==
    /\ log_pc = "logged"
    /\ log_context.level = "Critical"
    /\ DOMAIN log_context.attributes = {"user_id", "custom_attr"}
    /\ logged_attributes["status"] = AV("String", "critical")
    /\ logged_attributes["service"] = AV("String", service_name)
    /\ "usr.id" \in DOMAIN logged_attributes

\* The claim's order of the six levels.
C11_LevelRank ==
    [Trace |-> 1, Debug |-> 2, Info |-> 3, Warn |-> 4, Error |-> 5,
     Critical |-> 6]

\* The severity scale of the tracing levels.
C11_Severity == [TRACE |-> 1, DEBUG |-> 2, INFO |-> 3, WARN |-> 4, ERROR |-> 5]

\* C11: the level log computes for a context is a tracing level (the map is
\* total), no level above it in Trace < Debug < Info < Warn < Error <
\* Critical maps to a lower severity and none below it to a higher one,
\* Trace, Debug, Info and Warn map to four distinct severities, Error and
\* Critical both map to ERROR, and an emitted event carries that level.
C11_OrderPreserving ==
    log_pc = "logged" =>
        LET a == log_context.level
            Low == {"Trace", "Debug", "Info", "Warn"}
        IN  /\ to_tracing_level(a) \in DOMAIN C11_Severity
            /\ \A b \in LogLevels :
                   /\ to_tracing_level(b) \in DOMAIN C11_Severity
                   /\ C11_LevelRank[a] <= C11_LevelRank[b] =>
                          C11_Severity[to_tracing_level(a)]
                              <= C11_Severity[to_tracing_level(b)]
                   /\ C11_LevelRank[b] <= C11_LevelRank[a] =>
                          C11_Severity[to_tracing_level(b)]
                              <= C11_Severity[to_tracing_level(a)]
                   /\ (a \in Low /\ b \in Low /\ a # b) =>
                          to_tracing_level(a) # to_tracing_level(b)
            /\ a \in {"Error", "Critical"} => to_tracing_level(a) = "ERROR"
            /\ \A i \in 1..Len(tracing_events) :
                   tracing_events[i].level = to_tracing_level(a)

\* A Critical context was logged and its event carries ERROR; Warn sits
\* strictly between Info and Error.
C11_Witness ==
    /\ log_pc = "logged"
    /\ log_context.level = "Critical"
    /\ Len(tracing_events) = 1
    /\ tracing_events[1].level = "ERROR"
    /\ C11_Severity[to_tracing_level("Info")] < C11_Severity[to_tracing_level("Warn")]
    /\ C11_Severity[to_tracing_level("Warn")] < C11_Severity[to_tracing_level("Error")]

\* The tracing level of each LogLevel.
C24_Level ==
    [Trace |-> "TRACE", Debug |-> "DEBUG", Info |-> "INFO", Warn |-> "WARN",
     Error |-> "ERROR", Critical |-> "ERROR"]

\* C24: for a context of any LogLevel, log emits exactly one tracing
\* event, at the level's tracing level and with the context's message.
C24_OneEventPerLog ==
    log_pc = "logged" =>
        /\ Len(tracing_events) = 1
        /\ tracing_events[1].level = C24_Level[log_context.level]
        /\ tracing_events[1].message = log_context.message

\* ------------------------------------------------------ spans: the claims

\* The SDK value type the claim names for each variant.
C12_SdkType ==
    [String |-> "String", Int |-> "I64", Float |-> "F64", Bool |-> "Bool",
     Uint |-> "String"]

\* C12: every attribute a span was given, by create_span through
\* to_key_value or by set_attribute, is recorded under the same key with
\* the SDK type of its variant (a string for String and Uint, a signed
\* 64-bit integer for Int, a double for Float, a boolean for Bool) and with
\* its payload unchanged, the payload of a Uint being its decimal text; and
\* set_attribute converts it as to_key_value does.
C12_LosslessConversion ==
    \A id \in 1..Len(spans) :
        /\ Len(spans[id].attributes) = Len(spans[id].given)
        /\ \A i \in 1..Len(spans[id].given) :
               LET g == spans[id].given[i]
                   kv == spans[id].attributes[i]
               IN  /\ kv.key = g.key
                   /\ kv.type = C12_SdkType[g.value.tag]
                   /\ kv.val = g.value.val
                   /\ set_attribute_key_value(g.key, g.value)
                          = to_key_value(g.key, g.value)

\* A span was created with u128::MAX as a Uint attribute and then given
\* i64::MIN with set_attribute.
C12_Witness ==
    /\ Len(spans) = 1
    /\ Len(spans[1].given) = 2
    /\ spans[1].given[1] = [key |-> "request_id", value |-> AV("Uint", U128_MAX),
                            via |-> "create_span"]
    /\ spans[1].attributes[1] = KeyValue("request_id", "String", U128_MAX)
    /\ spans[1].given[2].via = "set_attribute"
    /\ spans[1].given[2].value = AV("Int", "-9223372036854775808")
    /\ spans[1].attributes[2].type = "I64"

\* ------------------------------------------------- conversions: the claims

\* C13: the text displayed for AttributeValue::from(x) is the decimal text
\* of x, for every x of every native integer type.
C13_DisplayIsDecimalText ==
    convert_pc = "displayed" => displayed = native.value

\* ----------------------------------------------------- service: the claims

C14_Order == <<"tracer", "metrics", "logger">>

C14_Label == [tracer |-> "Tracer", metrics |-> "Metrics", logger |-> "Logger"]

\* The message of component c's failure followed by those of the failed
\* components after it, each after "; ".
RECURSIVE C14_Messages(_)
C14_Messages(i) ==
    IF i > Len(C14_Order) THEN <<>>
    ELSE (IF shutdown_outcomes[C14_Order[i]].ok THEN <<>>
          ELSE <<C14_Label[C14_Order[i]] \o " shutdown error: "
                    \o TelemetryError_fmt(shutdown_outcomes[C14_Order[i]].err)>>)
         \o C14_Messages(i + 1)

RECURSIVE C14_Joined(_)
C14_Joined(messages) ==
    IF Len(messages) = 1 THEN messages[1]
    ELSE messages[1] \o "; " \o C14_Joined(Tail(messages))

\* C14: shutdown is called on the tracer, the metrics and the logger in that
\* order, each at most once while shutdown runs and each exactly once when
\* it has returned, whatever the earlier ones returned; the result is Ok
\* exactly when none failed, and otherwise a ShutdownError whose message is
\* the failed components' messages in that order joined by "; ".
C14_ShutdownAll ==
    /\ shutdown_calls = SubSeq(C14_Order, 1, Len(shutdown_calls))
    /\ service_pc = "done" =>
           /\ shutdown_calls = C14_Order
           /\ shutdown_result.ok <=> \A c \in Components : shutdown_outcomes[c].ok
           /\ ~shutdown_result.ok =>
                  shutdown_result.err =
                      TelemetryError("ShutdownError", C14_Joined(C14_Messages(1)))

\* The tracer and the logger failed, the metrics did not: shutdown returned
\* one error naming both, after calling all three.
C14_Witness ==
    /\ service_pc = "done"
    /\ ~shutdown_outcomes["tracer"].ok
    /\ shutdown_outcomes["metrics"].ok
    /\ ~shutdown_outcomes["logger"].ok
    /\ shutdown_calls = <<"tracer", "metrics", "logger">>
    /\ shutdown_result.err.msg =
           "Tracer shutdown error: Shutdown error: timed out; "
               \o "Logger shutdown error: Logger initialization error: not started"

\* ------------------------------------------------------ facade: the claims

\* C15: at most one facade::init call installs its service, and exactly one
\* as soon as any call has tried; the cell holds that service from then on;
\* every other call that has returned got the error "Telemetry service
\* already initialized" and ran no init on its own service; no port of any
\* service is initialized twice.
C15_InstalledOnce ==
    /\ Len(installs) <= 1
    /\ (\E i \in InitCallers : init_pc[i] # "start") => Len(installs) = 1
    /\ IF installs = <<>>
       THEN TELEMETRY_SERVICE = NoService
       ELSE TELEMETRY_SERVICE = installs[1]
    /\ \A i \in InitCallers :
           /\ (init_pc[i] # "start" /\ TELEMETRY_SERVICE # i) =>
                  /\ init_pc[i] = "done"
                  /\ init_result[i].returned
                  /\ ~init_result[i].result.ok
                  /\ init_result[i].result.err.msg
                         = "Telemetry service already initialized"
                  /\ component_inits[i] = <<>>
           /\ \A j, k \in 1..Len(component_inits[i]) :
                  component_inits[i][j] = component_inits[i][k] => j = k

\* Two calls have returned: the first installed its service and initialized
\* its three ports, the second was refused.
C15_Witness ==
    /\ TELEMETRY_SERVICE = 1
    /\ init_pc[1] = "done"
    /\ init_result[1].result.ok
    /\ component_inits[1] = <<"logger", "tracer", "metrics">>
    /\ init_pc[2] = "done"
    /\ ~init_result[2].result.ok
    /\ component_inits[2] = <<>>

\* C16: a facade call that obtained the installed service reached it after
\* the logger, the tracer and the metrics of that service were initialized.
C16_InitializedBeforeUse ==
    \A u \in Users :
        (user_got[u].returned /\ ~user_got[u].panic) =>
            user_got[u].initialized = InitOrder

\* The services whose facade::init installed them and then failed in a
\* port's init.
C22_Failed ==
    {i \in InitCallers :
        /\ init_result[i].returned
        /\ ~init_result[i].result.ok
        /\ component_inits[i] # <<>>}

\* C22: once the port initialization inside facade::init has failed, the
\* cell holds the failed service and keeps it: a facade::init that then
\* offers its service is refused with "Telemetry service already
\* initialized" and runs no init, and a facade call made then does not
\* panic and reaches the failed service.
C22_FailedServiceStays ==
    [][\A i \in C22_Failed :
           /\ TELEMETRY_SERVICE = i
           /\ TELEMETRY_SERVICE' = i
           /\ \A j \in InitCallers :
                  (init_pc[j] = "start" /\ init_pc'[j] # "start") =>
                      /\ init_pc'[j] = "done"
                      /\ init_result'[j] =
                             [returned |-> TRUE,
                              result |-> ErrOf(TelemetryError(
                                  "TracerInitError",
                                  "Telemetry service already initialized"))]
                      /\ component_inits'[j] = <<>>
           /\ \A u \in Users :
                  (~user_got[u].returned /\ user_got'[u].returned) =>
                      /\ ~user_got'[u].panic
                      /\ user_got'[u].service = i]_vars

\* The first service's logger failed to initialize; the second
\* facade::init was refused, and a facade call made after the failure
\* reached the first service.
C22_Witness ==
    /\ init_result[1].returned
    /\ init_result[1].result = ErrOf(InitError("logger"))
    /\ init_result[2].returned
    /\ init_result[2].result.err.msg = "Telemetry service already initialized"
    /\ TELEMETRY_SERVICE = 1
    /\ \E u \in Users :
           /\ user_got[u].returned
           /\ user_got[u].service = 1
           /\ user_got[u].initialized = <<"logger">>

\* No facade::init call has been made.
C23_BeforeInit == \A i \in InitCallers : init_pc[i] \in {"start", "idle"}

\* The services some returned facade::shutdown has shut down.
C23_ShutDown ==
    {shutdown_got[k].service :
        k \in {c \in ShutdownCallers : shutdown_got[c].returned}} \ {NoService}

\* C23: before any facade::init call, a facade::shutdown returns Ok and
\* shuts nothing down, and a log, create_span, create_counter,
\* create_gauge or create_histogram call panics with "Telemetry service
\* not initialized"; once facade::shutdown has shut the installed service
\* down the cell keeps that service, and such a call does not panic and
\* reaches it.
C23_ShutdownAndCell ==
    [][/\ C23_BeforeInit =>
              /\ \A k \in ShutdownCallers :
                     (~shutdown_got[k].returned /\ shutdown_got'[k].returned) =>
                         /\ shutdown_got'[k].result = OkUnit
                         /\ component_shutdowns' = component_shutdowns
                         /\ component_inits' = component_inits
              /\ \A u \in Users :
                     (~user_got[u].returned /\ user_got'[u].returned) =>
                         /\ user_got'[u].panic
                         /\ user_got'[u].message = "Telemetry service not initialized"
                         /\ user_got'[u].op \in FacadeOps
       /\ \A s \in C23_ShutDown :
              /\ TELEMETRY_SERVICE = s
              /\ TELEMETRY_SERVICE' = s
              /\ component_shutdowns[s] > 0
              /\ \A u \in Users :
                     (~user_got[u].returned /\ user_got'[u].returned) =>
                         /\ ~user_got'[u].panic
                         /\ user_got'[u].service = s]_vars

\* A facade::shutdown made before the init returned Ok on the empty cell
\* and a facade call panicked; the service was then installed and shut
\* down by a second facade::shutdown, and a facade call reached it.
C23_Witness ==
    /\ \E k \in ShutdownCallers :
           /\ shutdown_got[k].returned
           /\ shutdown_got[k].service = NoService
           /\ shutdown_got[k].result = OkUnit
    /\ \E k \in ShutdownCallers :
           /\ shutdown_got[k].returned
           /\ shutdown_got[k].service = 1
    /\ component_shutdowns[1] = 1
    /\ \E u \in Users : user_got[u].returned /\ user_got[u].panic
    /\ \E u \in Users :
           /\ user_got[u].returned
           /\ user_got[u].service = 1
           /\ user_got[u].initialized = <<"logger", "tracer", "metrics">>
    /\ init_result[1].returned
    /\ init_result[1].result = OkUnit

\* ----------------------------------------------------- metrics: the claims

\* The system tags the claim expects after the caller attributes: env,
\* service, version, each when the caller gave no attribute of that key and
\* its variable is set.
C17_SystemTags ==
    LET tag(key, variable) ==
            IF (\A i \in 1..Len(metric_context.attributes) :
                    metric_context.attributes[i][1] # key)
               /\ variable # NotSet
            THEN <<KeyValue(key, "String", variable)>>
            ELSE <<>>
    IN  tag("env", environment.DD_ENV) \o tag("service", environment.DD_SERVICE)
            \o tag("version", environment.DD_VERSION)

\* C17: a created counter carries every caller attribute, in order and with
\* its value, followed by exactly the expected system tags: a caller's env,
\* service or version is kept and not overridden; the counter made from
\* request_count without a unit and with ("type", "http") carries type=http
\* and the system tags present in the environment.
C17_MergedTags ==
    metrics_pc = "created" =>
        LET given == metric_context.attributes
            got == counter.default_attributes
        IN  /\ Len(got) = Len(given) + Len(C17_SystemTags)
            /\ \A i \in 1..Len(given) :
                   /\ got[i].key = given[i][1]
                   /\ got[i].val = given[i][2].val
                   /\ got[i] = to_key_value(given[i][1], given[i][2])
            /\ SubSeq(got, Len(given) + 1, Len(got)) = C17_SystemTags
            /\ (given = << <<"type", AV("String", "http")>> >>
                    /\ metric_context.unit = NoUnit) =>
                   /\ got[1] = KeyValue("type", "String", "http")
                   /\ \A k \in {"env", "service", "version"} :
                          (\E i \in 1..Len(got) : got[i].key = k)
                              <=> environment[IF k = "env" THEN "DD_ENV"
                                              ELSE IF k = "service" THEN "DD_SERVICE"
                                              ELSE "DD_VERSION"] # NotSet

\* A counter was made from ("type", "http") and a caller's own env while
\* DD_ENV, DD_SERVICE and DD_VERSION were all set: the caller's env stayed
\* and service and version were appended.
C17_Witness ==
    /\ metrics_pc = "created"
    /\ metric_context.attributes =
           << <<"type", AV("String", "http")>>, <<"env", AV("String", "http")>> >>
    /\ environment = [DD_ENV |-> "prod", DD_SERVICE |-> "api", DD_VERSION |-> "1.2.3"]
    /\ counter.default_attributes =
           <<KeyValue("type", "String", "http"), KeyValue("env", "String", "http"),
             KeyValue("service", "String", "api"),
             KeyValue("version", "String", "1.2.3")>>

\* ------------------------------------------------------- trace: the claims

\* The spans whose context is attached after the first n entries of
\* trace_log, innermost last.
RECURSIVE C18_Attached(_)
C18_Attached(n) ==
    IF n = 0 THEN <<>>
    ELSE LET before == C18_Attached(n - 1)
         IN  CASE trace_log[n].op = "attach" -> Append(before, trace_log[n].span)
               [] trace_log[n].op = "detach" -> SubSeq(before, 1, Len(before) - 1)
               [] OTHER -> before

C18_Innermost(attached) ==
    IF attached = <<>> THEN NoSpan ELSE attached[Len(attached)]

\* The steps of one with_span call, in the claimed order.
C18_Steps == <<"create", "attach", "run", "end", "detach">>

\* What trace_log holds for span k, in order.
C18_StepsOf(k) ==
    LET of_k(e) == e.span = k
        events == SelectSeq(trace_log, of_k)
    IN  [i \in 1..Len(events) |-> events[i].op]

\* C18: every with_span call goes through create, attach, run f, end,
\* detach in this order; its span is ended once, after f returned and
\* before the detach, and not before; the call returns what f returned; a
\* span is created as the child of the span of the innermost with_span
\* whose closure is running (a root span outside any); a detach is that of
\* the innermost attached context, and the current context is always that
\* of the innermost with_span still attached, so the outer one again after
\* an inner call returned.
C18_ScopedSpan ==
    /\ current_cx = C18_Innermost(C18_Attached(Len(trace_log)))
    /\ \A n \in 1..Len(trace_log) :
           /\ trace_log[n].op = "create" =>
                  spans[trace_log[n].span].parent
                      = C18_Innermost(C18_Attached(n - 1))
           /\ trace_log[n].op = "detach" =>
                  trace_log[n].span = C18_Innermost(C18_Attached(n - 1))
    /\ \A k \in 1..Len(spans) :
           /\ C18_StepsOf(k) = SubSeq(C18_Steps, 1, Len(C18_StepsOf(k)))
           /\ spans[k].end_calls = (IF Len(C18_StepsOf(k)) >= 4 THEN 1 ELSE 0)
    /\ \A j \in 1..Len(returned) :
           /\ C18_StepsOf(returned[j].span) = C18_Steps
           /\ \E n \in 1..Len(trace_log) :
                  trace_log[n] = Event("run", returned[j].span, returned[j].result)
           /\ \A i \in 1..Len(returned) :
                  returned[i].span = returned[j].span => i = j

\* An inner with_span has returned inside the closure of an outer one that
\* is still running: the inner span is a child of the outer, it was ended
\* once, and the outer context is current.
C18_Witness ==
    /\ Len(spans) = 2
    /\ Len(frames) = 1
    /\ frames[1].span = 1
    /\ frames[1].pc = "attached"
    /\ spans[1].parent = NoSpan
    /\ spans[2].parent = 1
    /\ spans[2].end_calls = 1
    /\ spans[1].end_calls = 0
    /\ returned = <<[span |-> 2, result |-> "42"]>>
    /\ current_cx = 1


\* The four attributes log_error sets, for a call.
C19_Set(call) ==
    [k \in {"logger.name", "error.stack", "error.message", "error.kind"} |->
        AV("String",
           CASE k = "logger.name" ->
                    IF call.target = NoTarget THEN "app" ELSE call.target
             [] k = "error.stack" ->
                    IF Len(call.chain) = 1 THEN "Main error"
                    ELSE "Main error\n    caused by: Nested error cause"
             [] k = "error.message" -> "Main error"
             [] k = "error.kind" -> "Error")]

\* The value the caller gave last for a key.
C19_CallerValue(call, key) ==
    LET at == {i \in 1..Len(call.attributes) : call.attributes[i][1] = key}
    IN  call.attributes[CHOOSE i \in at : \A j \in at : j <= i][2]

C20_ReinitOk ==
    \A i \in 1..Len(lifecycle_calls) :
        LET call == lifecycle_calls[i]
        IN  /\ (call.op = "init" /\ call.initialized /\ call.outcome = "Ok")
                   => call.result = OkUnit
            /\ (call.op = "shutdown" /\ call.outcome = "Ok")
                   => call.result = OkUnit

\* C26: over any sequence of init and shutdown calls on DatadogLoggers, no
\* provider is shut down more than once; a shutdown empties the logger's
\* slot and, when the slot was empty, returns Ok and shuts nothing down;
\* an init whose exporter is built on a logger that holds a provider puts
\* a newly built provider in the slot in place of the held one.
C26_ShutDownAtMostOnce ==
    [][LET call == lifecycle_calls'[Len(lifecycle_calls')]
           l == call.logger
       IN  /\ \A p \in DOMAIN sdk_providers' : sdk_providers'[p].shutdown_calls <= 1
           /\ call.op = "shutdown" =>
                  /\ logger_provider'[l] = NoProvider
                  /\ logger_provider[l] = NoProvider =>
                         /\ call.result = OkUnit
                         /\ sdk_providers' = sdk_providers
           /\ (call.op = "init" /\ call.outcome = "Ok"
                   /\ logger_provider[l] # NoProvider) =>
                  /\ logger_provider'[l] = Len(sdk_providers')
                  /\ logger_provider'[l] # logger_provider[l]]_vars

\* ----------------------------------------------------- startup: the claims

\* The position in logger, tracer, metrics of the first port whose init
\* fails, 3 when none does.
C21_Stop ==
    IF ~init_outcomes["logger"].ok THEN 1
    ELSE IF ~init_outcomes["tracer"].ok THEN 2
    ELSE 3

\* C21: init calls the logger's init, then the tracer's, then the
\* metrics', up to the first that fails and no further; it returns that
\* port's error as the port returned it, and Ok when none fails.
C21_InitOrder ==
    /\ \E n \in 0..C21_Stop : init_calls = SubSeq(<<"logger", "tracer", "metrics">>, 1, n)
    /\ startup_pc = "done" =>
           /\ Len(init_calls) = C21_Stop
           /\ startup_result = init_outcomes[init_calls[C21_Stop]]

\* The logger was initialized, the tracer failed with an error of another
\* port's variant, and init returned without calling the metrics.
C21_Witness ==
    /\ startup_pc = "done"
    /\ init_calls = <<"logger", "tracer">>
    /\ init_outcomes["metrics"].ok
    /\ startup_result = ErrOf(TelemetryError("MetricsInitError", "exporter"))

\* ------------------------------------------------------ meters: the claims

\* The slots that held a provider before a call, in shutdown's order.
C25_Stored(call) ==
    SelectSeq(<<"counter", "gauge", "histogram">>,
              LAMBDA k : call.before[k] # NoProvider)

\* The position in C25_Stored of the first provider whose shutdown fails,
\* 0 when none does.
C25_FirstFailure(call) ==
    LET failed == {n \in 1..Len(C25_Stored(call)) :
                      call.outcomes[C25_Stored(call)[n]] = "Err"}
    IN  IF failed = {} THEN 0 ELSE CHOOSE n \in failed : \A m \in failed : n <= m

\* C25: shutdown shuts the stored counter, gauge and histogram providers
\* down in that order; when one fails it returns ShutdownError, that
\* provider's slot is empty, and the later slots keep their providers,
\* which are not shut down; when none fails it returns Ok and every slot
\* is empty.
C25_StopsAtFirstFailure ==
    \A i \in 1..Len(meter_calls) :
        LET call == meter_calls[i]
            stored == C25_Stored(call)
            f == C25_FirstFailure(call)
            last == IF f = 0 THEN Len(stored) ELSE f
        IN  call.op = "shutdown" =>
                /\ call.shut = [n \in 1..last |-> call.before[stored[n]]]
                /\ \A n \in 1..Len(stored) :
                       call.after[stored[n]] =
                           IF n <= last THEN NoProvider ELSE call.before[stored[n]]
                /\ IF f = 0 THEN call.result = OkUnit
                   ELSE /\ ~call.result.ok
                        /\ call.result.err.variant = "ShutdownError"

\* A shutdown after an init: the counter provider was shut down, the gauge
\* provider's shutdown failed, and the histogram provider stayed stored.
C25_Witness ==
    \E i \in 1..Len(meter_calls) :
        /\ meter_calls[i].op = "shutdown"
        /\ meter_calls[i].before = [k \in MeterKinds |->
               CASE k = "counter" -> 1 [] k = "gauge" -> 2 [] k = "histogram" -> 3]
        /\ meter_calls[i].shut = <<1, 2>>
        /\ meter_calls[i].after["histogram"] = 3
        /\ ~meter_calls[i].result.ok

\* ------------------------------------------------- instruments: the claims

\* The key-value pairs of the attributes of a call, which are strings and
\* integers.
C27_Given(call_attrs) ==
    [i \in 1..Len(call_attrs) |->
        KeyValue(call_attrs[i][1],
                 IF call_attrs[i][2].tag = "Int" THEN "I64" ELSE "String",
                 call_attrs[i][2].val)]

\* C27: an add, set or record call records its value with the attributes
\* the instrument was created with followed by the attributes of the call,
\* every pair of both kept; the instrument's default attributes are the
\* ones it was created with after any number of calls.
C27_DefaultsThenCall ==
    /\ default_attributes = created_with
    /\ recordings > 0 =>
           /\ last_recording.attributes =
                  created_with[last_recording.kind] \o C27_Given(last_recording.given)
           /\ last_recording.value \in RecordedValues

\* After a first call with attributes, a counter created with type and env
\* recorded a call that gave type twice.
C27_Witness ==
    /\ recordings = 2
    /\ last_recording.kind = "counter"
    /\ Len(created_with["counter"]) = 2
    /\ last_recording.given =
           << <<"type", AV("String", "http")>>, <<"type", AV("Int", "7")>> >>
    /\ Len(last_recording.attributes) = 4

\* ------------------------------------------------------- names: the claims

\* The lower-case letter of each upper-case letter of the names.
C28_Lower ==
    [A |-> "a", H |-> "h", T |-> "t", P |-> "p", R |-> "r", L |-> "l"]

\* text is name with every upper-case letter lowered and every '_' turned
\* into '.', character by character.
C28_IsLowered(text, name) ==
    /\ Len(text) = Len(name)
    /\ \A i \in 1..Len(name) :
           SubSeq(text, i, i) =
               IF SubSeq(name, i, i) = "_" THEN "."
               ELSE IF SubSeq(name, i, i) \in DOMAIN C28_Lower
                    THEN C28_Lower[SubSeq(name, i, i)]
               ELSE SubSeq(name, i, i)

C28_HasDot(text) == \E i \in 1..Len(text) : SubSeq(text, i, i) = "."

\* C28: format_metric_name returns the name in lower case with every '_'
\* replaced by '.', prefixed by "custom." exactly when that text has no
\* '.'; the result has a '.' and no '_', and formatting it again returns
\* it unchanged.
C28_FormattedName ==
    /\ name_pc \in {"formatted", "reformatted"} =>
           /\ \/ /\ C28_IsLowered(formatted, metric_name)
                 /\ C28_HasDot(formatted)
              \/ /\ Len(formatted) = Len(metric_name) + 7
                 /\ SubSeq(formatted, 1, 7) = "custom."
                 /\ C28_IsLowered(SubSeq(formatted, 8, Len(formatted)), metric_name)
                 /\ ~C28_HasDot(SubSeq(formatted, 8, Len(formatted)))
           /\ C28_HasDot(formatted)
           /\ \A i \in 1..Len(formatted) : SubSeq(formatted, i, i) # "_"
    /\ name_pc = "reformatted" => reformatted = formatted

\* A name with upper-case letters and two underscores was formatted, and
\* its result formatted again.
C28_Witness ==
    /\ name_pc = "reformatted"
    /\ metric_name = "HTTP_Requests_Total"
    /\ formatted = "http.requests.total"
    /\ reformatted = "http.requests.total"

\* ------------------------------------------------------- stack: the claims

\* The texts from the n-th on, outermost first, with the separator between
\* neighbours.
RECURSIVE C29_From(_)
C29_From(n) ==
    IF n = Len(error_texts) THEN error_texts[n]
    ELSE error_texts[n] \o "\n    caused by: " \o C29_From(n + 1)

\* C29: for an error with a finite source chain extract_stack_trace
\* returns, and what it returns is the display text of the error followed
\* by the text of each successive source, the root cause last, joined by
\* "\n    caused by: "; the text alone when the error has no source.
C29_StackTrace ==
    /\ [](stack_pc = "returned" =>
              /\ stack_trace = C29_From(1)
              /\ (Len(error_texts) = 1 => stack_trace = error_texts[1]))
    /\ <>(stack_pc = "returned")

\* The trace of an error with a source that has a source of its own was
\* returned.
C29_Witness ==
    /\ stack_pc = "returned"
    /\ error_texts = <<"Main error", "Nested error cause", "timed out">>
    /\ stack_trace =
           "Main error\n    caused by: Nested error cause\n    caused by: timed out"
====
